---- MODULE Spec2Model ----
(***************************************************************************)
(* Snapshot change detection of the MCA insights engine                    *)
(* (src/src/change_detection.py): detect_changes, create_change_log,       *)
(* load_snapshot, generate_change_summary and track_consecutive_days, with *)
(* the snapshot store written by data_integration.create_snapshot, the     *)
(* integration pipeline of data_integration.py, the table of changes of    *)
(* database.py and the batch enrichment of web_enrichment.py.              *)
(*                                                                         *)
(* A table cell is a record [ty, s]: the Python type of the value and its  *)
(* str() rendering.  A DataFrame is [cols, rows]: the set of column names  *)
(* and the sequence of rows, each a function from cols to cells.  A CSV    *)
(* file is the same shape with texts (strings) in place of cells.          *)
(***************************************************************************)
EXTENDS Integers, Sequences, FiniteSets, TLC

\* ------------------------------------------------------------------ bounds

\* rows of a snapshot handed to detect_changes
MaxRows == 2

\* the largest num_days handed to track_consecutive_days
MaxNumDays == 2

\* snapshots saved in one run of the store
MaxSaves == 3

\* rows of a raw state file
MaxRawRows == 2

\* runs of the integration pipeline
MaxRuns == 2

\* runs of the main of the database module
MaxLoads == 2

\* companies handed to one enrich_batch
MaxCompanies == 3

\* ------------------------------------------------------------------ cells

StrCell(t) == [ty |-> "str", s |-> t]

\* numpy.nan, the missing-value marker of a loaded table
NaN == [ty |-> "float", s |-> "nan"]

\* Python None
None == [ty |-> "NoneType", s |-> "None"]

\* str(value): the text of the value
str(c) == c.s

\* Series.astype(str) on one cell, and str(record[field]): a str object
astype_str(c) == StrCell(str(c))

\* pd.isna(value): true of NaN and None only, never of a str object
isna(c) == c.ty # "str" /\ (c = NaN \/ c = None \/ c.ty = "NaTType")

\* ------------------------------------------------------------- DataFrames

DataFrame(cols, rows) == [cols |-> cols, rows |-> rows]

\* pd.DataFrame(): no columns, no rows
EmptyFrame == DataFrame({}, <<>>)

\* DataFrame.empty: any axis of length 0
empty(df) == df.cols = {} \/ Len(df.rows) = 0

\* pd.DataFrame(list of dicts): the union of the keys, NaN where a dict has none
FrameOfDicts(dicts) ==
    LET cols == UNION {DOMAIN dicts[i] : i \in DOMAIN dicts}
    IN  DataFrame(cols, [i \in DOMAIN dicts |->
            [c \in cols |-> IF c \in DOMAIN dicts[i] THEN dicts[i][c] ELSE NaN]])

\* row.get(field, default)
get(row, field, default) == IF field \in DOMAIN row THEN row[field] ELSE default

\* the permutations of a finite set, as sequences
Perms(S) ==
    {f \in [1..Cardinality(S) -> S] : \A i, j \in DOMAIN f : f[i] = f[j] => i = j}

RECURSIVE Flatten(_)
Flatten(ss) == IF ss = <<>> THEN <<>> ELSE Head(ss) \o Flatten(Tail(ss))

Reverse(seq) == [i \in DOMAIN seq |-> seq[Len(seq) + 1 - i]]

\* ---------------------------------------------------------- ChangeDetector

\* variant: the state is tracked too
tracked_fields_and_state ==
    << "COMPANY_NAME", "COMPANY_CLASS", "COMPANY_STATUS", "AUTHORIZED_CAPITAL",
       "PAIDUP_CAPITAL", "PRINCIPAL_BUSINESS_ACTIVITY", "REGISTERED_OFFICE_ADDRESS",
       "STATE" >>

\* self.tracked_fields
tracked_fields ==
    << "COMPANY_NAME", "COMPANY_CLASS", "COMPANY_STATUS", "AUTHORIZED_CAPITAL",
       "PAIDUP_CAPITAL", "PRINCIPAL_BUSINESS_ACTIVITY", "REGISTERED_OFFICE_ADDRESS" >>

\* datetime.now() rendered by strftime('%Y-%m-%d') and by strftime('%Y%m%d')
TodayDashed == "2024-01-03"
TodayCompact == "20240103"

\* df['CIN'] raises KeyError when the table has no CIN column
HasKey(df) == "CIN" \in df.cols

\* variant: the converted keys are assigned back in reverse row order
StrKeyColumn_misaligned(df) ==
    [df EXCEPT !.rows = [i \in DOMAIN df.rows |->
        [df.rows[i] EXCEPT !["CIN"] = astype_str(df.rows[Len(df.rows) + 1 - i]["CIN"])]]]

\* df['CIN'] = df['CIN'].astype(str): the caller's table, key column rewritten
StrKeyColumn(df) ==
    [df EXCEPT !.rows = [i \in DOMAIN df.rows |->
        [df.rows[i] EXCEPT !["CIN"] = astype_str(@)]]]

\* set(df['CIN'].unique())
unique_cins(df) == {df.rows[i]["CIN"] : i \in DOMAIN df.rows}

\* variant: the selection negated
isin_not(df, keys) == DataFrame(df.cols, SelectSeq(df.rows, LAMBDA r : r["CIN"] \notin keys))

\* df[df['CIN'].isin(keys)].copy()
isin(df, keys) == DataFrame(df.cols, SelectSeq(df.rows, LAMBDA r : r["CIN"] \in keys))

\* df[df['CIN'] == cin].iloc[0]
iloc0(df, cin) ==
    df.rows[CHOOSE i \in DOMAIN df.rows :
                /\ df.rows[i]["CIN"] = cin
                /\ \A j \in DOMAIN df.rows : df.rows[j]["CIN"] = cin => i <= j]

\* variant: the subtraction of the old keys left out
new_incorporations_all(old_cins, new_cins) == new_cins

\* variant: the keys of both tables in place of the keys of the new one only
new_incorporations_common(old_cins, new_cins) == new_cins \cap old_cins

new_incorporations_of(old_cins, new_cins) == new_cins \ old_cins

\* variant: the subtraction of the new keys left out
deregistered_all(old_cins, new_cins) == old_cins

\* variant: the operands of the difference swapped
deregistered_swapped(old_cins, new_cins) == new_cins \ old_cins

deregistered_of(old_cins, new_cins) == old_cins \ new_cins

common_cins_of(old_cins, new_cins) == old_cins \cap new_cins

\* variant: only the old record is asked for the field
field_compared_old_only(old_record, new_record, field) == field \in DOMAIN old_record

\* if field in old_record and field in new_record
field_compared(old_record, new_record, field) ==
    field \in DOMAIN old_record /\ field \in DOMAIN new_record

\* record[field] raises KeyError for a label the record does not have
field_key_error(old_record, new_record) ==
    \E i \in DOMAIN tracked_fields :
        /\ field_compared(old_record, new_record, tracked_fields[i])
        /\ \/ tracked_fields[i] \notin DOMAIN old_record
           \/ tracked_fields[i] \notin DOMAIN new_record

\* variant: "or" in place of "and" between the two tests
field_changed_or(old_record, new_record, field) ==
    /\ field_compared(old_record, new_record, field)
    /\ LET old_value == astype_str(old_record[field])
           new_value == astype_str(new_record[field])
       IN  old_value # new_value \/ ~(isna(old_value) /\ isna(new_value))

\* the test of one tracked field of one common key
field_changed(old_record, new_record, field) ==
    /\ field_compared(old_record, new_record, field)
    /\ LET old_value == astype_str(old_record[field])
           new_value == astype_str(new_record[field])
       IN  old_value # new_value /\ ~(isna(old_value) /\ isna(new_value))

\* variant: one dict per key, for the first of its changed fields
record_changes_first(old_record, new_record, cin, change_date) ==
    LET fields == SelectSeq(tracked_fields,
                            LAMBDA f : field_changed(old_record, new_record, f))
    IN  [i \in DOMAIN fields \cap {1} |->
            [ CIN           |-> cin,
              COMPANY_NAME  |-> get(new_record, "COMPANY_NAME", StrCell("")),
              CHANGE_TYPE   |-> StrCell("FIELD_UPDATE"),
              FIELD_CHANGED |-> StrCell(fields[i]),
              OLD_VALUE     |-> astype_str(old_record[fields[i]]),
              NEW_VALUE     |-> astype_str(new_record[fields[i]]),
              DATE          |-> StrCell(change_date) ]]

\* the FIELD_UPDATE dicts of one common key, in tracked_fields order
record_changes(old_record, new_record, cin, change_date) ==
    LET fields == SelectSeq(tracked_fields,
                            LAMBDA f : field_changed(old_record, new_record, f))
    IN  [i \in DOMAIN fields |->
            [ CIN           |-> cin,
              COMPANY_NAME  |-> get(new_record, "COMPANY_NAME", StrCell("")),
              CHANGE_TYPE   |-> StrCell("FIELD_UPDATE"),
              FIELD_CHANGED |-> StrCell(fields[i]),
              OLD_VALUE     |-> astype_str(old_record[fields[i]]),
              NEW_VALUE     |-> astype_str(new_record[fields[i]]),
              DATE          |-> StrCell(change_date) ]]

\* whether detect_changes raises KeyError at the key column
key_error(old, new) == ~HasKey(old) \/ ~HasKey(new)

\* the dict detect_changes starts from: three empty tables
NoChanges ==
    [ new_incorporations |-> EmptyFrame, deregistrations |-> EmptyFrame,
      field_updates |-> EmptyFrame ]

\* what the caller is left with when detect_changes raises
Raised(old1, new1, date_arg) ==
    [ raised |-> "KeyError", old_df |-> old1, new_df |-> new1, changes |-> NoChanges,
      new_incorporations |-> {}, deregistered |-> {}, common_cins |-> {},
      date_arg |-> date_arg ]

\* detect_changes(old_df, new_df, change_date).  date_arg is None or a text;
\* order is the iteration order of the set common_cins.  The result holds
\* what the caller sees afterwards: the exception, its two tables, the
\* returned dict, the three key sets the call computed and the date argument
\* it was given.
detect_changes(old, new, date_arg, order) ==
    LET change_date == IF date_arg = None THEN TodayDashed ELSE str(date_arg)
        old1 == IF HasKey(old) THEN StrKeyColumn(old) ELSE old
        new1 == IF HasKey(old) /\ HasKey(new) THEN StrKeyColumn(new) ELSE new
    IN  IF key_error(old, new) THEN Raised(old1, new1, date_arg)
        ELSE
        LET old_cins == unique_cins(old1)
            new_cins == unique_cins(new1)
            new_incorporations == new_incorporations_of(old_cins, new_cins)
            deregistered == deregistered_of(old_cins, new_cins)
            common_cins == common_cins_of(old_cins, new_cins)
            field_changes ==
                Flatten([i \in DOMAIN order |->
                    record_changes(iloc0(old1, order[i]), iloc0(new1, order[i]),
                                   order[i], change_date)])
        IN  IF \E cin \in common_cins :
                   field_key_error(iloc0(old1, cin), iloc0(new1, cin))
            THEN Raised(old1, new1, date_arg)
            ELSE
            [ raised |-> "none", old_df |-> old1, new_df |-> new1,
              changes |->
                [ new_incorporations |->
                    IF new_incorporations # {} THEN isin(new1, new_incorporations)
                    ELSE EmptyFrame,
                  deregistrations |->
                    IF deregistered # {} THEN isin(old1, deregistered)
                    ELSE EmptyFrame,
                  field_updates |->
                    IF field_changes # <<>> THEN FrameOfDicts(field_changes)
                    ELSE EmptyFrame ],
              new_incorporations |-> new_incorporations,
              deregistered |-> deregistered,
              common_cins |-> common_cins,
              date_arg |-> date_arg ]

\* the iteration orders of common_cins that detect_changes may take
CommonOrders(old, new) ==
    IF key_error(old, new) THEN {<<>>}
    ELSE Perms(common_cins_of(unique_cins(StrKeyColumn(old)),
                              unique_cins(StrKeyColumn(new))))

\* ------------------------------------------------------------------- files

\* the text to_csv writes for one cell: nothing for a missing value
csv_text(c) == IF isna(c) THEN "" ELSE str(c)

\* DataFrame.to_csv(file, index=False): the file holds the header and one
\* line of texts per row
to_csv(df) ==
    [ exists |-> TRUE, cols |-> df.cols,
      rows |-> [i \in DOMAIN df.rows |-> [c \in df.cols |-> csv_text(df.rows[i][c])]] ]

\* a path at which no file exists
NoFile == [exists |-> FALSE, cols |-> {}, rows |-> <<>>]

\* json.dump(value, default=str) of one cell: str, None and float are JSON
\* values, any other object is written as its str()
json_cell(c) == IF c.ty \in {"str", "NoneType", "float"} THEN c ELSE StrCell(str(c))

\* json.dump(all_changes, f, indent=2, default=str)
json_dump(dicts) ==
    [ exists |-> TRUE,
      records |-> [i \in DOMAIN dicts |->
                      [k \in DOMAIN dicts[i] |-> json_cell(dicts[i][k])]] ]

NoJson == [exists |-> FALSE, records |-> <<>>]

\* the two artifacts of one detection date
NoLog == [csv |-> NoFile, json |-> NoJson]

\* ------------------------------------------------------- create_change_log

incorporation_event(row, log_date) ==
    [ CIN           |-> row["CIN"],
      COMPANY_NAME  |-> get(row, "COMPANY_NAME", StrCell("")),
      CHANGE_TYPE   |-> StrCell("NEW_INCORPORATION"),
      FIELD_CHANGED |-> StrCell("ALL"),
      OLD_VALUE     |-> None,
      NEW_VALUE     |-> StrCell("INCORPORATED"),
      DATE          |-> StrCell(log_date),
      STATUS        |-> get(row, "COMPANY_STATUS", StrCell("")) ]
    @@ ("STATE" :> get(row, "STATE", StrCell("")))

\* variant: the removal names the event's STATUS key as the field changed
deregistration_event_status(row, log_date) ==
    [ CIN           |-> row["CIN"],
      COMPANY_NAME  |-> get(row, "COMPANY_NAME", StrCell("")),
      CHANGE_TYPE   |-> StrCell("DEREGISTRATION"),
      FIELD_CHANGED |-> StrCell("STATUS"),
      OLD_VALUE     |-> get(row, "COMPANY_STATUS", StrCell("")),
      NEW_VALUE     |-> StrCell("DEREGISTERED"),
      DATE          |-> StrCell(log_date),
      STATUS        |-> StrCell("DEREGISTERED") ]
    @@ ("STATE" :> get(row, "STATE", StrCell("")))

deregistration_event(row, log_date) ==
    [ CIN           |-> row["CIN"],
      COMPANY_NAME  |-> get(row, "COMPANY_NAME", StrCell("")),
      CHANGE_TYPE   |-> StrCell("DEREGISTRATION"),
      FIELD_CHANGED |-> StrCell("COMPANY_STATUS"),
      OLD_VALUE     |-> get(row, "COMPANY_STATUS", StrCell("")),
      NEW_VALUE     |-> StrCell("DEREGISTERED"),
      DATE          |-> StrCell(log_date),
      STATUS        |-> StrCell("DEREGISTERED") ]
    @@ ("STATE" :> get(row, "STATE", StrCell("")))

\* variant: the field updates are taken first
all_changes_updates_first(changes, log_date) ==
    LET inc == changes.new_incorporations.rows
        der == changes.deregistrations.rows
        upd == changes.field_updates.rows
    IN  [i \in DOMAIN upd |-> upd[i]]
        \o [i \in DOMAIN inc |-> incorporation_event(inc[i], log_date)]
        \o [i \in DOMAIN der |-> deregistration_event(der[i], log_date)]

\* the list all_changes built from the three tables of a detect_changes result
all_changes_of(changes, log_date) ==
    LET inc == changes.new_incorporations.rows
        der == changes.deregistrations.rows
        upd == changes.field_updates.rows
    IN  [i \in DOMAIN inc |-> incorporation_event(inc[i], log_date)]
        \o [i \in DOMAIN der |-> deregistration_event(der[i], log_date)]
        \o [i \in DOMAIN upd |-> upd[i]]

\* variant: the files are written whatever the list holds
writes_log_always(all_changes) == TRUE

\* whether create_change_log writes its two files
writes_log(all_changes) == all_changes # <<>>

csv_path(log_date) == "change_log_" \o log_date \o ".csv"

json_path(log_date) == "change_log_" \o log_date \o ".json"

\* create_change_log(changes, log_date): the date used, the list built, the
\* returned pair of paths and the two files as the call leaves them, given the
\* files it found (before); with them the date argument and the exception
create_change_log(changes, date_arg, before) ==
    LET log_date == IF date_arg = None THEN TodayCompact ELSE str(date_arg)
        all_changes == all_changes_of(changes, log_date)
    IN  IF writes_log(all_changes)
        THEN [ log_date |-> log_date, all_changes |-> all_changes,
               ret |-> <<csv_path(log_date), json_path(log_date)>>,
               files |-> [ csv |-> to_csv(FrameOfDicts(all_changes)),
                           json |-> json_dump(all_changes) ],
               date_arg |-> date_arg, raised |-> "none" ]
        ELSE [ log_date |-> log_date, all_changes |-> all_changes,
               ret |-> <<"", "">>, files |-> before,
               date_arg |-> date_arg, raised |-> "none" ]

\* the places at which a write of create_change_log can fail with OSError:
\* opening the CSV file, opening the JSON file, and json.dump after the JSON
\* file was opened (and so truncated)
Faults == {"to_csv", "open_json", "json_dump"}

\* the two files as a write that fails at fault leaves them: to_csv has
\* written the whole CSV file before the JSON file is opened
files_after_fault(all_changes, before, fault) ==
    CASE fault = "to_csv" -> before
      [] fault = "open_json" ->
            [before EXCEPT !.csv = to_csv(FrameOfDicts(all_changes))]
      [] fault = "json_dump" ->
            [ csv |-> to_csv(FrameOfDicts(all_changes)), json |-> json_dump(<<>>) ]

\* create_change_log(changes, log_date) when a write raises OSError at fault:
\* nothing is returned
create_change_log_fails(changes, date_arg, before, fault) ==
    LET log_date == IF date_arg = None THEN TodayCompact ELSE str(date_arg)
        all_changes == all_changes_of(changes, log_date)
    IN  [ log_date |-> log_date, all_changes |-> all_changes,
          ret |-> <<"", "">>,
          files |-> files_after_fault(all_changes, before, fault),
          date_arg |-> date_arg, raised |-> "OSError" ]

\* ---------------------------------------------------------------- read_csv

\* the texts pd.read_csv takes for a missing value (its default na_values)
NaTexts ==
    { "", "#N/A", "#N/A N/A", "#NA", "-1.#IND", "-1.#QNAN", "-NaN", "-nan", "1.#IND",
      "1.#QNAN", "<NA>", "N/A", "NA", "NULL", "NaN", "None", "n/a", "nan", "null" }

\* the texts of the model that parse as an int64
IntTexts == {"20240101", "20240102", "20240103", "100000"}

\* the cells of one column as pd.read_csv infers them: int64 when every text
\* is an integer, float64 when integers and missing values mix, else object
\* (str cells); a missing value is NaN
read_csv_cell(texts, t) ==
    LET given == texts \ NaTexts
    IN  IF t \in NaTexts THEN NaN
        ELSE IF given \subseteq IntTexts
             THEN IF texts \cap NaTexts = {} THEN [ty |-> "int64", s |-> t]
                  ELSE [ty |-> "float", s |-> t \o ".0"]
             ELSE StrCell(t)

\* pd.read_csv(file, low_memory=False) of a file that exists
read_csv(file) ==
    DataFrame(file.cols,
              [i \in DOMAIN file.rows |->
                  [c \in file.cols |->
                      read_csv_cell({file.rows[j][c] : j \in DOMAIN file.rows},
                                    file.rows[i][c])]])

\* variant: the file is read without the test that it exists
load_snapshot_unchecked(files, date_str) ==
    IF ~files[date_str].exists
    THEN [raised |-> "FileNotFoundError", df |-> EmptyFrame]
    ELSE [raised |-> "none", df |-> read_csv(files[date_str])]

\* load_snapshot(date_str): the exception raised and the table returned
load_snapshot(files, date_str) ==
    IF ~files[date_str].exists
    THEN [raised |-> "none", df |-> EmptyFrame]
    ELSE [raised |-> "none", df |-> read_csv(files[date_str])]

\* ------------------------------------------------- generate_change_summary

\* Series.dropna().unique().tolist(): the values in order of first appearance
RECURSIVE unique_list(_)
unique_list(cells) ==
    IF cells = <<>> THEN <<>>
    ELSE LET front == SubSeq(cells, 1, Len(cells) - 1)
             last_cell == cells[Len(cells)]
         IN  IF \E i \in DOMAIN front : front[i] = last_cell
             THEN unique_list(front)
             ELSE Append(unique_list(front), last_cell)

\* Series.value_counts().to_dict()
value_counts(cells) ==
    [v \in {cells[i] : i \in DOMAIN cells} |->
        Cardinality({i \in DOMAIN cells : cells[i] = v})]

\* variant: the comparison negated
rows_where_not(df, col, text) == SelectSeq(df.rows, LAMBDA r : r[col] # StrCell(text))

\* df[df[col] == text]
rows_where(df, col, text) == SelectSeq(df.rows, LAMBDA r : r[col] = StrCell(text))

column(rows, col) == [i \in DOMAIN rows |-> rows[i][col]]

\* variant: the date of the summary left empty
generate_change_summary_undated(file) ==
    LET df == read_csv(file)
        field_updates == rows_where(df, "CHANGE_TYPE", "FIELD_UPDATE")
    IN  [ date |-> StrCell(""),
          total_changes |-> Len(df.rows),
          new_incorporations |-> Len(rows_where(df, "CHANGE_TYPE", "NEW_INCORPORATION")),
          deregistrations |-> Len(rows_where(df, "CHANGE_TYPE", "DEREGISTRATION")),
          field_updates |-> Len(field_updates),
          affected_states |->
              IF "STATE" \in df.cols
              THEN unique_list(SelectSeq(column(df.rows, "STATE"), LAMBDA c : ~isna(c)))
              ELSE <<>>,
          field_change_breakdown |->
              IF "FIELD_CHANGED" \in df.cols /\ field_updates # <<>>
              THEN value_counts(column(field_updates, "FIELD_CHANGED"))
              ELSE <<>> ]

\* generate_change_summary(change_log_file)
generate_change_summary(file) ==
    LET df == read_csv(file)
        field_updates == rows_where(df, "CHANGE_TYPE", "FIELD_UPDATE")
    IN  [ date |-> IF ~empty(df) THEN df.rows[1]["DATE"] ELSE StrCell(""),
          total_changes |-> Len(df.rows),
          new_incorporations |-> Len(rows_where(df, "CHANGE_TYPE", "NEW_INCORPORATION")),
          deregistrations |-> Len(rows_where(df, "CHANGE_TYPE", "DEREGISTRATION")),
          field_updates |-> Len(field_updates),
          affected_states |->
              IF "STATE" \in df.cols
              THEN unique_list(SelectSeq(column(df.rows, "STATE"), LAMBDA c : ~isna(c)))
              ELSE <<>>,
          field_change_breakdown |->
              IF "FIELD_CHANGED" \in df.cols /\ field_updates # <<>>
              THEN value_counts(column(field_updates, "FIELD_CHANGED"))
              ELSE <<>> ]

\* the file a path returned by create_change_log names; a path that names
\* no file of logs_dir (the empty path) has no file
file_at(logs, path) ==
    IF \E d \in DOMAIN logs : path = csv_path(d)
    THEN logs[CHOOSE d \in DOMAIN logs : path = csv_path(d)].csv
    ELSE NoFile

NoSummary ==
    [ date |-> StrCell(""), total_changes |-> 0, new_incorporations |-> 0,
      deregistrations |-> 0, field_updates |-> 0, affected_states |-> <<>>,
      field_change_breakdown |-> <<>> ]

\* generate_change_summary(change_log_file) from the path: pd.read_csv raises
\* FileNotFoundError when the path names no file
generate_change_summary_at(logs, change_log_file) ==
    IF ~file_at(logs, change_log_file).exists
    THEN [raised |-> "FileNotFoundError", summary |-> NoSummary]
    ELSE [ raised |-> "none",
           summary |-> generate_change_summary(file_at(logs, change_log_file)) ]

\* -------------------------------------------------- track_consecutive_days

\* the labels a snapshot file can have, in the order sorted() gives the files
LabelOrder == <<"20240101", "20240102", "20240103">>

Labels == {LabelOrder[i] : i \in DOMAIN LabelOrder}

\* variant: the files taken in descending order of their names
snapshot_files_descending(files) ==
    SelectSeq(Reverse(LabelOrder), LAMBDA l : files[l].exists)

\* sorted(self.snapshots_dir.glob("snapshot_*.csv")), as labels
snapshot_files(files) == SelectSeq(LabelOrder, LAMBDA l : files[l].exists)

Min(a, b) == IF a <= b THEN a ELSE b

\* one pass of the loop of track_consecutive_days and the passes after it.
\* st holds the log files, the pairs of labels handed to detect_changes so
\* far, the calls of create_change_log made so far (date and list), the
\* summaries so far and the exception raised; a pass takes its common keys
\* in the order they have in orders
RECURSIVE track_loop(_, _, _, _, _)
track_loop(i, passes, files, orders, st) ==
    IF i > passes \/ st.raised # "none" THEN st
    ELSE
    LET labels == snapshot_files(files)
        old_date == labels[i]
        new_date == labels[i + 1]
        old_load == load_snapshot(files, old_date)
        new_load == load_snapshot(files, new_date)
    IN  IF old_load.raised # "none" \/ new_load.raised # "none"
        THEN [st EXCEPT !.raised = IF old_load.raised # "none" THEN old_load.raised
                                   ELSE new_load.raised]
        ELSE IF empty(old_load.df) \/ empty(new_load.df)
        THEN track_loop(i + 1, passes, files, orders, st)
        ELSE
        LET order == IF key_error(old_load.df, new_load.df) THEN <<>>
                     ELSE SelectSeq(orders, LAMBDA k :
                            k \in common_cins_of(unique_cins(StrKeyColumn(old_load.df)),
                                                 unique_cins(StrKeyColumn(new_load.df))))
            d == detect_changes(old_load.df, new_load.df, StrCell(new_date), order)
        IN  IF d.raised # "none"
            THEN [st EXCEPT !.raised = d.raised,
                            !.diffs = Append(@, <<old_date, new_date>>)]
            ELSE
            LET w == create_change_log(d.changes, StrCell(new_date), st.logs[new_date])
                st1 == [st EXCEPT
                          !.logs = [@ EXCEPT ![new_date] = w.files],
                          !.diffs = Append(@, <<old_date, new_date>>),
                          !.writes = Append(@, [ log_date |-> w.log_date,
                                                 all_changes |-> w.all_changes ])]
            IN  IF w.ret[1] # ""
                THEN track_loop(i + 1, passes, files, orders,
                        [st1 EXCEPT !.summaries =
                            Append(@, generate_change_summary(st1.logs[new_date].csv))])
                ELSE track_loop(i + 1, passes, files, orders, st1)

\* track_consecutive_days(num_days)
track_consecutive_days(num_days, files, orders, st) ==
    IF Len(snapshot_files(files)) < 2 THEN st
    ELSE track_loop(1, Min(num_days, Len(snapshot_files(files)) - 1), files, orders, st)

\* ------------------------------------------------------ MCADataIntegrator
\* A table of the integrator is [columns, rows]: the sequence of column
\* names, which may hold a name twice, and the rows, each the sequence of the
\* cells under those columns.

Table(columns, rows) == [columns |-> columns, rows |-> rows]

\* pd.DataFrame() as a table
EmptyTable == Table(<<>>, <<>>)

\* the length clean_data asks of a CIN
KeyLen == 21

\* self.column_mapping: source column name -> canonical name
column_mapping ==
    [ CORPORATE_IDENTIFICATION_NUMBER |-> "CIN",
      CIN |-> "CIN",
      COMPANY_NAME |-> "COMPANY_NAME",
      COMPANY_CLASS |-> "COMPANY_CLASS",
      COMPANY_CATEGORY |-> "COMPANY_CATEGORY",
      COMPANY_SUB_CATEGORY |-> "COMPANY_SUB_CATEGORY",
      DATE_OF_REGISTRATION |-> "DATE_OF_INCORPORATION",
      DATE_OF_INCORPORATION |-> "DATE_OF_INCORPORATION",
      AUTHORIZED_CAPITAL |-> "AUTHORIZED_CAPITAL",
      PAIDUP_CAPITAL |-> "PAIDUP_CAPITAL",
      COMPANY_STATUS |-> "COMPANY_STATUS",
      PRINCIPAL_BUSINESS_ACTIVITY |-> "PRINCIPAL_BUSINESS_ACTIVITY",
      REGISTERED_OFFICE_ADDRESS |-> "REGISTERED_OFFICE_ADDRESS",
      ROC_CODE |-> "ROC_CODE" ]
    @@ ("STATE" :> "STATE")

\* the canonical names in the order the mapping first gives them
CanonicalOrder ==
    << "CIN", "COMPANY_NAME", "COMPANY_CLASS", "COMPANY_CATEGORY",
       "COMPANY_SUB_CATEGORY", "DATE_OF_INCORPORATION", "AUTHORIZED_CAPITAL",
       "PAIDUP_CAPITAL", "COMPANY_STATUS", "PRINCIPAL_BUSINESS_ACTIVITY",
       "REGISTERED_OFFICE_ADDRESS", "ROC_CODE", "STATE" >>

\* set(self.column_mapping.values())
CanonicalFields == {column_mapping[k] : k \in DOMAIN column_mapping}

\* list(set(...)): the order a set of str iterates in is fixed by the hash
\* seed of the process; two of the orders it can have
SetOrders == {CanonicalOrder, Reverse(CanonicalOrder)}

\* the texts of the model that have no blank at either end
Stripped ==
    { "U12345MH2020PTC123456", "U99999GJ2019PLC654321", "U12345MH2020PTC12345",
      "Acme", "ACME", "Active", "ACTIVE", "nan", "NAN", "15-01-2020", "Private",
      "Company limited by shares", "Non-government company", "100000", "Trading",
      "Mumbai", "RoC-Mumbai", "Maharashtra", "" }

Blanks == {"", " "}

\* str.strip(): the text without the blanks at its two ends
strip(t) == CHOOSE b \in Stripped : \E l, r \in Blanks : t = l \o b \o r

\* str.upper() of a stripped text of the model
upper(t) ==
    CASE t = "Acme" -> "ACME"
      [] t = "Active" -> "ACTIVE"
      [] t = "nan" -> "NAN"
      [] OTHER -> t

\* df.columns.str.upper().str.strip() for one column name
upper_strip(name) == IF name = "Company_Name " THEN "COMPANY_NAME" ELSE name

\* the positions of the columns with a name
positions(columns, name) == {i \in DOMAIN columns : columns[i] = name}

\* the positions of a set, ascending, as a sequence
RECURSIVE Ascending(_)
Ascending(S) ==
    IF S = {} THEN <<>>
    ELSE LET m == CHOOSE x \in S : \A y \in S : x <= y
         IN  <<m>> \o Ascending(S \ {m})

\* standardize_columns(df); required_columns is list(set(mapping values)).
\* Renamed columns keep their place, a canonical column the source lacks is
\* appended with NaN, and df[required_columns] takes, for each required name
\* in turn, every column that has the name.
standardize_columns(df, required_columns) ==
    LET named == [i \in DOMAIN df.columns |-> upper_strip(df.columns[i])]
        renamed == [i \in DOMAIN named |->
                       IF named[i] \in DOMAIN column_mapping
                       THEN column_mapping[named[i]] ELSE named[i]]
        missing == SelectSeq(required_columns, LAMBDA c : positions(renamed, c) = {})
        columns1 == renamed \o missing
        rows1 == [r \in DOMAIN df.rows |->
                     df.rows[r] \o [j \in DOMAIN missing |-> NaN]]
        picks == Flatten([k \in DOMAIN required_columns |->
                     Ascending(positions(columns1, required_columns[k]))])
    IN  [ raised |-> "none",
          df |-> Table([p \in DOMAIN picks |-> columns1[picks[p]]],
                       [r \in DOMAIN rows1 |->
                           [p \in DOMAIN picks |-> rows1[r][picks[p]]]]) ]

\* pd.NaT, the missing value of a datetime column
NaT == [ty |-> "NaTType", s |-> "NaT"]

\* the date texts of the model that parse with dayfirst=True, and what the
\* Timestamp prints as
DateTexts == [t \in {"15-01-2020"} |-> "2020-01-15"]

\* pd.to_datetime(value, errors='coerce', dayfirst=True) for one cell
to_datetime(c) ==
    IF c.ty = "str" /\ c.s \in DOMAIN DateTexts
    THEN [ty |-> "Timestamp", s |-> DateTexts[c.s]]
    ELSE NaT

\* the texts of the model that parse as a number
NumTexts == {"100000"}

\* pd.to_numeric(value, errors='coerce') for one cell
to_numeric(c) ==
    IF c.ty \in {"int64", "float"} THEN c
    ELSE IF c.ty = "str" /\ c.s \in NumTexts THEN [ty |-> "int64", s |-> c.s]
    ELSE NaN

\* Series.astype(str).str.strip() for one cell
str_strip(c) == StrCell(strip(str(c)))

\* Series.astype(str).str.strip().str.upper() for one cell
str_strip_upper(c) == StrCell(upper(strip(str(c))))

\* variant: every length passes
valid_cin_any(c) == TRUE

\* df['CIN'].str.len() == 21 for one cell
valid_cin(c) == Len(str(c)) = KeyLen

\* the rows drop_duplicates(subset=['CIN'], keep='last') keeps, as positions:
\* a row stays when no later row has an equal CIN cell
keep_last(rows, at) ==
    Ascending({i \in DOMAIN rows : \A j \in DOMAIN rows : j > i => rows[j][at] # rows[i][at]})

\* df.notna().sum(axis=1) / len(df.columns) for one row, as a fraction
quality_score(row) ==
    [ num |-> Cardinality({i \in DOMAIN row : ~isna(row[i])}), den |-> Len(row) ]

\* datetime.now() as clean_data and merge_state_data store it
Now == [ty |-> "datetime", s |-> "2024-01-03 10:00:00"]

\* the statement of clean_data that raises on a table whose column for it is
\* there twice (df[col] is then a table, not a column), in statement order
clean_raises(columns) ==
    CASE Cardinality(positions(columns, "CIN")) > 1 -> "AttributeError"
      [] Cardinality(positions(columns, "COMPANY_NAME")) > 1 -> "AttributeError"
      [] Cardinality(positions(columns, "DATE_OF_INCORPORATION")) > 1 -> "ValueError"
      [] Cardinality(positions(columns, "AUTHORIZED_CAPITAL")) > 1 -> "TypeError"
      [] Cardinality(positions(columns, "PAIDUP_CAPITAL")) > 1 -> "TypeError"
      [] Cardinality(positions(columns, "COMPANY_STATUS")) > 1 -> "AttributeError"
      [] OTHER -> "none"

\* the conversion clean_data applies to the cell of one column
clean_cell(name, c) ==
    CASE name = "CIN" -> str_strip(c)
      [] name = "COMPANY_NAME" -> str_strip_upper(c)
      [] name = "DATE_OF_INCORPORATION" -> to_datetime(c)
      [] name \in {"AUTHORIZED_CAPITAL", "PAIDUP_CAPITAL"} -> to_numeric(c)
      [] name = "COMPANY_STATUS" -> str_strip_upper(c)
      [] OTHER -> c

\* variant: the key column is converted in the table the caller passed
caller_table_converted(df) ==
    [df EXCEPT !.rows = [r \in DOMAIN df.rows |->
        [i \in DOMAIN df.columns |->
            IF df.columns[i] = "CIN" THEN str_strip(df.rows[r][i]) ELSE df.rows[r][i]]]]

\* the table the caller passed, after clean_data: drop_duplicates hands back
\* a new table, the name df is bound to it, and every column assignment that
\* follows goes to that table or to the selection made of it
caller_table(df) == df

\* clean_data(df) on a standardized table: the exception raised, the table
\* returned, for each of its rows the position it had in df (the index the
\* row keeps) and its score as a fraction, and the table the caller passed
\* as the call leaves it
clean_data(df) ==
    IF clean_raises(df.columns) # "none"
    THEN [ raised |-> clean_raises(df.columns), df |-> EmptyTable, index |-> <<>>,
           scores |-> <<>>, input |-> caller_table(df) ]
    ELSE
    LET at == CHOOSE i \in DOMAIN df.columns : df.columns[i] = "CIN"
        deduped == keep_last(df.rows, at)
        stripped == [k \in DOMAIN deduped |->
                        [df.rows[deduped[k]] EXCEPT ![at] = str_strip(@)]]
        valid == SelectSeq([k \in DOMAIN deduped |-> k],
                           LAMBDA k : valid_cin(stripped[k][at]))
        cleaned == [k \in DOMAIN valid |->
                       [i \in DOMAIN df.columns |->
                           IF i = at THEN stripped[valid[k]][at]
                           ELSE clean_cell(df.columns[i], stripped[valid[k]][i])]]
        scores == [k \in DOMAIN cleaned |-> quality_score(cleaned[k])]
    IN  [ raised |-> "none",
          df |-> Table(df.columns \o <<"DATA_QUALITY_SCORE", "LAST_UPDATED">>,
                       [k \in DOMAIN cleaned |->
                           cleaned[k] \o
                           << [ty |-> "float",
                               s |-> ToString(scores[k].num) \o "/" \o ToString(scores[k].den)],
                              Now >>]),
          index |-> [k \in DOMAIN valid |-> deduped[valid[k]]],
          scores |-> scores,
          input |-> caller_table(df) ]

\* the state whose file load_state_data reads
StateName == "Maharashtra"

\* load_state_data(state) given the table pd.read_csv made of the file: a
\* STATE column is added when the file has none
load_state_data(file) ==
    IF positions(file.columns, "STATE") # {} THEN file
    ELSE Table(file.columns \o <<"STATE">>,
               [r \in DOMAIN file.rows |-> file.rows[r] \o <<StrCell(StateName)>>])

\* DataFrame.empty for a table
empty_table(t) == t.columns = <<>> \/ t.rows = <<>>

\* a table with its columns as a set and each row as a function from them;
\* of two columns with one name the first stands
FrameOfTable(t) ==
    LET cols == {t.columns[i] : i \in DOMAIN t.columns}
        at(c) == CHOOSE i \in DOMAIN t.columns :
                    /\ t.columns[i] = c
                    /\ \A j \in positions(t.columns, c) : i <= j
    IN  DataFrame(cols, [r \in DOMAIN t.rows |-> [c \in cols |-> t.rows[r][at(c)]]])

\* pd.concat(all_data, ignore_index=True)
concat(frames) ==
    LET cols == UNION {frames[i].cols : i \in DOMAIN frames}
        rows == Flatten([i \in DOMAIN frames |-> frames[i].rows])
    IN  DataFrame(cols, [r \in DOMAIN rows |->
            [c \in cols |-> IF c \in DOMAIN rows[r] THEN rows[r][c] ELSE NaN]])

\* hashlib.md5(x.encode()).hexdigest()[:10], left uninterpreted
md5_10(t) == "md5(" \o t \o ")[:10]"

\* merge_state_data(states) from the cleaned tables collected in all_data:
\* concat, drop_duplicates(subset=['CIN'], keep='last'), three more columns
merge_state_data(all_data) ==
    IF all_data = <<>> THEN EmptyFrame
    ELSE
    LET master == concat([i \in DOMAIN all_data |-> FrameOfTable(all_data[i])])
        kept == SelectSeq([i \in DOMAIN master.rows |-> i],
                    LAMBDA i : \A j \in DOMAIN master.rows :
                        j > i => master.rows[j]["CIN"] # master.rows[i]["CIN"])
        more == {"RECORD_ID", "INTEGRATION_DATE", "SOURCE"}
    IN  DataFrame(master.cols \cup more,
            [k \in DOMAIN kept |->
                [c \in master.cols \cup more |->
                    CASE c = "RECORD_ID" -> StrCell(md5_10(str(master.rows[kept[k]]["CIN"])))
                      [] c = "INTEGRATION_DATE" -> Now
                      [] c = "SOURCE" -> StrCell("MCA_MASTER")
                      [] OTHER -> master.rows[kept[k]][c]]])

\* create_snapshot(df, snapshot_date): the snapshot files afterwards
create_snapshot(files, df, snapshot_date) ==
    LET label == IF snapshot_date = None THEN TodayCompact ELSE str(snapshot_date)
    IN  [files EXCEPT ![label] = to_csv(df)]

\* -------------------------------------------------------- DatabaseManager

\* the columns_map of insert_changes
changes_columns_map ==
    [ CIN |-> "cin", COMPANY_NAME |-> "company_name", CHANGE_TYPE |-> "change_type",
      FIELD_CHANGED |-> "field_changed", OLD_VALUE |-> "old_value",
      NEW_VALUE |-> "new_value", DATE |-> "date", STATUS |-> "status" ]
    @@ ("STATE" :> "state")

\* the columns of the table changes beside its id
changes_columns == {changes_columns_map[c] : c \in DOMAIN changes_columns_map}

\* NULL of SQLite
Null == [ty |-> "NULL", s |-> "NULL"]

\* what a TEXT column stores for a cell: NULL for a missing value, else text
sql_text(c) == IF isna(c) THEN Null ELSE StrCell(str(c))

\* the database after initialize_database: the table changes has no row;
\* runs counts the runs of main
NoDatabase == [changes |-> <<>>, runs |-> 0]

\* df.rename(columns=columns_map) for one column name
renamed_column(c) ==
    IF c \in DOMAIN changes_columns_map THEN changes_columns_map[c] ELSE c

\* insert_changes(df): to_sql('changes', if_exists='append') adds one row per
\* row of df, each under the next id of the AUTOINCREMENT key
insert_changes(changes, df) ==
    LET row(r) == [k \in changes_columns |->
                      IF \E c \in df.cols : renamed_column(c) = k
                      THEN sql_text(r[CHOOSE c \in df.cols : renamed_column(c) = k])
                      ELSE Null]
    IN  changes \o [i \in DOMAIN df.rows |->
                       [id |-> Len(changes) + i, row |-> row(df.rows[i])]]

\* main: for file in change_files: db.insert_changes(pd.read_csv(file)), the
\* files taken in the order the directory listing gives them
RECURSIVE load_change_files(_, _, _)
load_change_files(changes, files, order) ==
    IF order = <<>> THEN changes
    ELSE load_change_files(insert_changes(changes, read_csv(files[Head(order)].csv)),
                           files, Tail(order))

\* ------------------------------------------------------------ WebEnricher

\* enrich_batch(companies, max_workers=3)
max_workers == 3

\* the sources enrich_company asks, in the order it asks them
EnrichSources == <<"ZaubaCorp", "MCA_API", "GST_Portal">>

\* how many sources answered before one raised: none or all of them
FetchOutcomes == {0, Len(EnrichSources)}

\* datetime.now().isoformat() during the batch, and in an earlier process
NowIso == "2024-01-03T10:00:00"
EarlierIso == "2024-01-02T10:00:00"

\* the dict enrich_company builds when fetched sources answered
enriched_record(company_data, fetched) ==
    [ CIN |-> company_data["CIN"],
      COMPANY_NAME |-> get(company_data, "COMPANY_NAME", StrCell("")),
      STATUS |-> get(company_data, "COMPANY_STATUS", StrCell("")),
      ENRICHMENT_DATE |-> NowIso,
      ENRICHMENT_SOURCES |-> SubSeq(EnrichSources, 1, fetched),
      SOURCE_URLS |-> fetched,
      ENRICHMENT_COMPLETE |-> TRUE ]
    @@ ("STATE" :> get(company_data, "STATE", StrCell("")))

\* company_data['CIN'] raises KeyError for a dict without the key
has_cin(company_data) == "CIN" \in DOMAIN company_data

\* variant: the cache is never found to hold the key
cache_hit_never(enrichment_cache, company_data) == FALSE

\* if cin in self.cache
cache_hit(enrichment_cache, company_data) ==
    str(company_data["CIN"]) \in DOMAIN enrichment_cache

\* self.cache[cin] = enriched
cache_put(enrichment_cache, cin, enriched) ==
    [k \in DOMAIN enrichment_cache \cup {str(cin)} |->
        IF k = str(cin) THEN enriched ELSE enrichment_cache[k]]

\* a future of enrich_batch: where its call of enrich_company is, whether
\* the call found the key in the cache, what it returned, and whether
\* as_completed has handed the future to the loop
QueuedFuture(company_data) ==
    [ company |-> company_data, at |-> "queued", hit |-> FALSE,
      result |-> <<>>, yielded |-> FALSE ]

\* the calls of enrich_company that hold a thread of the pool
running(futures) == {w \in DOMAIN futures : futures[w].at = "fetching"}

\* a future is done when its call returned or raised
finished(future) == future.at \in {"returned", "raised"}

\* the loop over as_completed ends when every future was handed over, and
\* the with block is left when every thread of the pool has ended
batch_over(futures) ==
    \A w \in DOMAIN futures : finished(futures[w]) /\ futures[w].yielded

\* ------------------------------------------------------------------- state

VARIABLES
    old_in, new_in,   \* the two tables as the caller passed them to detect_changes
    call,             \* what detect_changes left: exception, tables, result, key sets
    log,              \* what the last create_change_log built and returned
    logs,             \* logs_dir: detection date -> the two log files
    snapshots,        \* snapshots_dir: label -> the snapshot file
    last,             \* the last call on the store and what it returned
    saves,            \* the snapshots saved so far
    again,            \* what a second detect_changes on the same tables left
    raw,              \* the table load_state_data returned in this run
    seed,             \* the order list(set(...)) has in this process
    std,              \* what standardize_columns returned
    cleaned,          \* what clean_data returned
    master,           \* what merge_state_data returned
    db,               \* the SQLite database: the rows of the table changes
    companies,        \* the list handed to enrich_batch
    cache,            \* self.cache of the WebEnricher: key text -> record
    cache_file,       \* enrichment_cache.json as last saved
    workers,          \* the futures of the batch, one per company
    enriched_companies, \* the list enrich_batch collects the results in
    pc                \* the caller's position

\* the variables of the integration pipeline and those of one detection run
pipeline == <<raw, seed, std, cleaned, master>>
detection == <<old_in, new_in, call, log, again>>

\* the variables of the collaborators downstream of the change logs
enrichment == <<companies, cache, cache_file, workers, enriched_companies>>
downstream == <<db, enrichment>>

vars == <<old_in, new_in, call, log, logs, snapshots, last, saves, again,
          raw, seed, std, cleaned, master, db, companies, cache, cache_file,
          workers, enriched_companies, pc>>

\* ------------------------------------------------------------ input tables

Columns == {"CIN", "COMPANY_NAME", "COMPANY_STATUS", "STATE"}

\* the column sets of the tables handed to detect_changes: no column at all
\* (pd.DataFrame()), no key column, the key column alone, a full record
ColumnSets == { {}, {"STATE"}, {"CIN"}, Columns }

CellsOf(col) ==
    CASE col = "CIN" -> {StrCell("K1"), StrCell("K2"), NaN}
      [] col = "COMPANY_STATUS" -> {StrCell("Active"), StrCell("Strike Off"), NaN}
      [] col = "COMPANY_NAME" -> {StrCell("ACME")}
      [] col = "STATE" -> {StrCell("MH")}

\* a record without a key (a blank CIN in the file) is given one status
RowsOf(cols) ==
    {r \in [cols -> UNION {CellsOf(c) : c \in cols}] :
        /\ \A c \in cols : r[c] \in CellsOf(c)
        /\ ({"CIN", "COMPANY_STATUS"} \subseteq cols /\ r["CIN"] = NaN)
              => r["COMPANY_STATUS"] = StrCell("Active")}

\* a snapshot is unique by identity key
UniqueKeys(rows) ==
    \A i, j \in DOMAIN rows :
        ("CIN" \in DOMAIN rows[i] /\ rows[i]["CIN"] = rows[j]["CIN"]) => i = j

RowSeqs(cols) ==
    IF cols = {} THEN {<<>>}
    ELSE {rs \in UNION {[1..n -> RowsOf(cols)] : n \in 0..MaxRows} : UniqueKeys(rs)}

Frames == UNION {{DataFrame(cols, rs) : rs \in RowSeqs(cols)} : cols \in ColumnSets}

DateArgs == {None, StrCell("20240102")}

LogDates == Labels \cup {TodayCompact}

NoCall ==
    [ raised |-> "none", old_df |-> EmptyFrame, new_df |-> EmptyFrame,
      changes |-> NoChanges,
      new_incorporations |-> {}, deregistered |-> {}, common_cins |-> {},
      date_arg |-> None ]

NoWrite ==
    [ log_date |-> "", all_changes |-> <<>>, ret |-> <<"", "">>, files |-> NoLog,
      date_arg |-> None, raised |-> "none" ]

NoStoreCall ==
    [ op |-> "none", label |-> "", raised |-> "none", df |-> EmptyFrame,
      summaries |-> <<>>, writes |-> <<>>, diffs |-> <<>>, num_days |-> 0,
      found |-> {} ]

\* the snapshots the pipeline saves: every canonical column and a text key
\* per record; the first has no record (a header-only file)
StoreKeys == {StrCell("K1"), StrCell("K2")}

StoreRow(key, status) ==
    [c \in Columns |->
        CASE c = "CIN" -> StrCell(key)
          [] c = "COMPANY_STATUS" -> StrCell(status)
          [] c = "COMPANY_NAME" -> StrCell("ACME")
          [] c = "STATE" -> StrCell("MH")]

StoreFrames ==
    { DataFrame(Columns, <<>>),
      DataFrame(Columns, <<StoreRow("K1", "Active")>>),
      DataFrame(Columns, <<StoreRow("K1", "Strike Off")>>),
      DataFrame(Columns, <<StoreRow("K2", "Active")>>),
      DataFrame(Columns, <<StoreRow("K1", "Active"), StoreRow("K2", "Active")>>) }

\* the orders in which a run of track_consecutive_days can meet the keys that
\* two or more of the saved snapshots share
StoreOrders(files) ==
    LET keys(l) == IF files[l].exists /\ "CIN" \in files[l].cols
                   THEN {StrCell(files[l].rows[i]["CIN"]) : i \in DOMAIN files[l].rows}
                   ELSE {}
    IN  Perms({k \in UNION {keys(l) : l \in Labels} :
                 Cardinality({l \in Labels : k \in keys(l)}) >= 2})

\* ------------------------------------------------------- raw state files

KeyA == "U12345MH2020PTC123456"
KeyB == "U99999GJ2019PLC654321"
KeyShort == "U12345MH2020PTC12345"

\* a file with the key and the name, the name under a header that is not
\* upper case and has a blank; one key comes with a trailing blank too
KeyNameRows ==
    { <<StrCell(KeyA), StrCell("Acme")>>, <<StrCell(KeyA \o " "), StrCell("Acme")>>,
      <<StrCell(KeyB), StrCell("Acme")>>, <<StrCell(KeyShort), StrCell("Acme")>> }

\* a file that names the key and the date by their other alias
AliasRows ==
    { <<StrCell(KeyA), StrCell("15-01-2020"), StrCell("Active")>>,
      <<StrCell(KeyShort), StrCell("15-01-2020"), StrCell("Active")>> }

\* a file with every canonical column; the name may be blank
FullRow(name) ==
    [i \in DOMAIN CanonicalOrder |->
        CASE CanonicalOrder[i] = "CIN" -> StrCell(KeyA)
          [] CanonicalOrder[i] = "COMPANY_NAME" -> name
          [] CanonicalOrder[i] = "COMPANY_CLASS" -> StrCell("Private")
          [] CanonicalOrder[i] = "COMPANY_CATEGORY" -> StrCell("Company limited by shares")
          [] CanonicalOrder[i] = "COMPANY_SUB_CATEGORY" -> StrCell("Non-government company")
          [] CanonicalOrder[i] = "DATE_OF_INCORPORATION" -> StrCell("15-01-2020")
          [] CanonicalOrder[i] = "AUTHORIZED_CAPITAL" -> [ty |-> "int64", s |-> "100000"]
          [] CanonicalOrder[i] = "PAIDUP_CAPITAL" -> [ty |-> "int64", s |-> "100000"]
          [] CanonicalOrder[i] = "COMPANY_STATUS" -> StrCell("Active")
          [] CanonicalOrder[i] = "PRINCIPAL_BUSINESS_ACTIVITY" -> StrCell("Trading")
          [] CanonicalOrder[i] = "REGISTERED_OFFICE_ADDRESS" -> StrCell("Mumbai")
          [] CanonicalOrder[i] = "ROC_CODE" -> StrCell("RoC-Mumbai")
          [] CanonicalOrder[i] = "STATE" -> StrCell("Maharashtra")]

\* the sequences of at most MaxRawRows rows
RowLists(rows) == UNION {[1..n -> rows] : n \in 0..MaxRawRows}

TablesOf(columns, rows) == {Table(columns, rs) : rs \in RowLists(rows)}

\* the tables pd.read_csv makes of a state file: key and name; the aliases;
\* both aliases of the key; no key column; every canonical column
RawTables ==
    TablesOf(<<"CIN", "Company_Name ">>, KeyNameRows)
    \cup TablesOf(<<"CORPORATE_IDENTIFICATION_NUMBER", "DATE_OF_REGISTRATION",
                    "COMPANY_STATUS">>, AliasRows)
    \cup TablesOf(<<"CIN", "CORPORATE_IDENTIFICATION_NUMBER">>,
                  {<<StrCell(KeyA), StrCell(KeyA)>>})
    \cup TablesOf(<<"COMPANY_NAME", "COMPANY_STATUS">>,
                  {<<StrCell("Acme"), StrCell("Active")>>})
    \cup TablesOf(CanonicalOrder, {FullRow(StrCell("Acme")), FullRow(NaN)})

SnapshotDates == {None, StrCell("20240102")}

NoResult == [raised |-> "none", df |-> EmptyTable]

NoClean ==
    [ raised |-> "none", df |-> EmptyTable, index |-> <<>>, scores |-> <<>>,
      input |-> EmptyTable ]

\* the pipeline before its first run
NoRun ==
    /\ raw = EmptyTable
    /\ seed = CanonicalOrder
    /\ std = NoResult
    /\ cleaned = NoClean
    /\ master = EmptyFrame

\* the collaborators before they run: an empty database, no batch
NoDownstream ==
    /\ db = NoDatabase
    /\ companies = <<>>
    /\ cache = <<>>
    /\ cache_file = <<>>
    /\ workers = <<>>
    /\ enriched_companies = <<>>

\* ------------------------------------------------- one detection run (Spec)

Init ==
    /\ old_in \in Frames
    /\ new_in \in Frames
    /\ call = NoCall
    /\ log = NoWrite
    /\ logs = [d \in LogDates |-> NoLog]
    /\ snapshots = [l \in Labels |-> NoFile]
    /\ last = NoStoreCall
    /\ saves = 0
    /\ again = NoCall
    /\ NoRun
    /\ NoDownstream
    /\ pc = "start"

\* changes = detector.detect_changes(old_df, new_df, change_date)
DetectChanges ==
    /\ pc = "start"
    /\ \E date_arg \in DateArgs, order \in CommonOrders(old_in, new_in) :
          call' = detect_changes(old_in, new_in, date_arg, order)
    /\ pc' = IF call'.raised = "none" THEN "detected" ELSE "raised"
    /\ UNCHANGED <<downstream, old_in, new_in, log, logs, snapshots, last, saves, again, pipeline>>

\* csv_file, json_file = detector.create_change_log(changes, log_date)
CreateChangeLog ==
    /\ pc = "detected"
    /\ \E date_arg \in DateArgs :
          LET date == IF date_arg = None THEN TodayCompact ELSE str(date_arg)
              r == create_change_log(call.changes, date_arg, logs[date])
          IN  /\ log' = r
              /\ logs' = [logs EXCEPT ![r.log_date] = r.files]
    /\ pc' = "logged"
    /\ UNCHANGED <<downstream, old_in, new_in, call, snapshots, last, saves, again, pipeline>>

\* create_change_log(changes, log_date) with a write that raises OSError
CreateChangeLogFails ==
    /\ pc = "detected"
    /\ \E date_arg \in DateArgs, fault \in Faults :
          LET date == IF date_arg = None THEN TodayCompact ELSE str(date_arg)
              r == create_change_log_fails(call.changes, date_arg, logs[date], fault)
          IN  /\ writes_log(r.all_changes)
              /\ log' = r
              /\ logs' = [logs EXCEPT ![r.log_date] = r.files]
    /\ pc' = "write_failed"
    /\ UNCHANGED <<downstream, old_in, new_in, call, snapshots, last, saves, again, pipeline>>

\* summary = detector.generate_change_summary(csv_file) on the path returned
GenerateChangeSummary ==
    /\ pc = "logged"
    /\ LET r == generate_change_summary_at(logs, log.ret[1])
       IN  last' = [NoStoreCall EXCEPT !.op = "generate_change_summary",
                                       !.raised = r.raised,
                                       !.summaries = <<r.summary>>]
    /\ pc' = "summarized"
    /\ UNCHANGED <<downstream, old_in, new_in, call, log, logs, snapshots, saves, again, pipeline>>

\* detector.detect_changes(old_df, new_df, change_date) a second time, on the
\* tables the first call left and with the date argument it had
DetectAgain ==
    /\ pc = "detected"
    /\ \E order \in CommonOrders(call.old_df, call.new_df) :
          again' = detect_changes(call.old_df, call.new_df, call.date_arg, order)
    /\ pc' = "detected_again"
    /\ UNCHANGED <<downstream, old_in, new_in, call, log, logs, snapshots, last, saves, pipeline>>

Next ==
    \/ DetectChanges
    \/ CreateChangeLog
    \/ CreateChangeLogFails
    \/ GenerateChangeSummary
    \/ DetectAgain

Spec == Init /\ [][Next]_vars

\* ------------------------------------- the snapshot store (SpecStore)

InitStore ==
    /\ old_in = EmptyFrame
    /\ new_in = EmptyFrame
    /\ call = NoCall
    /\ log = NoWrite
    /\ logs = [d \in LogDates |-> NoLog]
    /\ snapshots = [l \in Labels |-> NoFile]
    /\ last = NoStoreCall
    /\ saves = 0
    /\ again = NoCall
    /\ NoRun
    /\ NoDownstream
    /\ pc = "store"

\* integrator.create_snapshot(df, snapshot_date): df.to_csv(snapshot_file)
CreateSnapshot ==
    /\ pc = "store"
    /\ saves < MaxSaves
    /\ saves' = saves + 1
    /\ \E label \in Labels, df \in StoreFrames :
          /\ snapshots' = create_snapshot(snapshots, df, StrCell(label))
          /\ last' = [NoStoreCall EXCEPT !.op = "create_snapshot"]
    /\ UNCHANGED <<downstream, old_in, new_in, call, log, logs, again, pipeline, pc>>

\* df = detector.load_snapshot(date_str)
LoadSnapshot ==
    /\ pc = "store"
    /\ \E label \in Labels :
          LET r == load_snapshot(snapshots, label)
          IN  last' = [NoStoreCall EXCEPT !.op = "load_snapshot", !.label = label,
                                          !.raised = r.raised, !.df = r.df]
    /\ UNCHANGED <<downstream, old_in, new_in, call, log, logs, snapshots, saves, again, pipeline, pc>>

\* summaries = detector.track_consecutive_days(num_days); after the runs of
\* the integration pipeline it is the detector's last step
TrackConsecutiveDays ==
    /\ pc \in {"store", "idle"}
    /\ pc' = IF pc = "idle" THEN "tracked" ELSE pc
    /\ \E num_days \in 1..MaxNumDays, orders \in StoreOrders(snapshots) :
          LET r == track_consecutive_days(num_days, snapshots, orders,
                       [ logs |-> logs, diffs |-> <<>>, writes |-> <<>>,
                         summaries |-> <<>>, raised |-> "none" ])
          IN  /\ logs' = r.logs
              /\ last' = [NoStoreCall EXCEPT !.op = "track_consecutive_days",
                                             !.raised = r.raised,
                                             !.summaries = r.summaries,
                                             !.writes = r.writes,
                                             !.diffs = r.diffs,
                                             !.num_days = num_days,
                                             !.found = {d \in LogDates : logs[d].csv.exists}]
    /\ UNCHANGED <<downstream, old_in, new_in, call, log, snapshots, saves, again, pipeline>>

NextStore == CreateSnapshot \/ LoadSnapshot \/ TrackConsecutiveDays

SpecStore == InitStore /\ [][NextStore]_vars

\* ------------------------------ the integration pipeline (SpecIntegrate)

InitIntegrate ==
    /\ old_in = EmptyFrame
    /\ new_in = EmptyFrame
    /\ call = NoCall
    /\ log = NoWrite
    /\ logs = [d \in LogDates |-> NoLog]
    /\ snapshots = [l \in Labels |-> NoFile]
    /\ last = NoStoreCall
    /\ saves = 0
    /\ again = NoCall
    /\ NoRun
    /\ NoDownstream
    /\ pc = "idle"

\* a run of main starts: df = self.load_state_data(state)
LoadStateData ==
    /\ pc = "idle"
    /\ saves < MaxRuns
    /\ \E file \in RawTables, order \in SetOrders :
          /\ raw' = load_state_data(file)
          /\ seed' = order
    /\ std' = NoResult
    /\ cleaned' = NoClean
    /\ master' = EmptyFrame
    /\ pc' = "loaded"
    /\ UNCHANGED <<downstream, detection, logs, snapshots, last, saves>>

\* df = self.standardize_columns(df), for a table that is not empty
StandardizeColumns ==
    /\ pc = "loaded"
    /\ ~empty_table(raw)
    /\ std' = standardize_columns(raw, seed)
    /\ pc' = "standardized"
    /\ UNCHANGED <<downstream, detection, logs, snapshots, last, saves, raw, seed, cleaned, master>>

\* df = self.clean_data(df); the table standardize_columns returned is the
\* one passed in
CleanData ==
    /\ pc = "standardized"
    /\ cleaned' = clean_data(std.df)
    /\ std' = [std EXCEPT !.df = cleaned'.input]
    /\ pc' = IF cleaned'.raised = "none" THEN "cleaned" ELSE "crashed"
    /\ UNCHANGED <<downstream, detection, logs, snapshots, last, saves, raw, seed, master>>

\* the rest of merge_state_data: all_data holds the cleaned table, or
\* nothing when the loaded table was empty
MergeStateData ==
    /\ \/ pc = "cleaned"
       \/ pc = "loaded" /\ empty_table(raw)
    /\ master' = merge_state_data(IF pc = "cleaned" THEN <<cleaned.df>> ELSE <<>>)
    /\ pc' = "merged"
    /\ UNCHANGED <<downstream, detection, logs, snapshots, last, saves, raw, seed, std, cleaned>>

\* main: if not master_df.empty: integrator.create_snapshot(master_df); then
\* main returns and its tables are gone, the raw file stays on disk
SaveSnapshot ==
    /\ pc = "merged"
    /\ IF ~empty(master)
       THEN /\ \E snapshot_date \in SnapshotDates :
                  snapshots' = create_snapshot(snapshots, master, snapshot_date)
            /\ saves' = saves + 1
       ELSE UNCHANGED <<snapshots, saves>>
    /\ seed' = CanonicalOrder
    /\ std' = NoResult
    /\ cleaned' = NoClean
    /\ master' = EmptyFrame
    /\ pc' = "idle"
    /\ UNCHANGED <<downstream, detection, logs, last, raw>>

NextIntegrate ==
    \/ LoadStateData
    \/ StandardizeColumns
    \/ CleanData
    \/ MergeStateData
    \/ SaveSnapshot
    \/ TrackConsecutiveDays

SpecIntegrate == InitIntegrate /\ [][NextIntegrate]_vars

\* ------------------------------- two snapshots compared both ways (SpecDiff)

\* a record of a snapshot with two tracked fields and one that is not tracked
DiffRow(key, name, status, state) ==
    [c \in Columns |->
        CASE c = "CIN" -> StrCell(key)
          [] c = "COMPANY_NAME" -> StrCell(name)
          [] c = "COMPANY_STATUS" -> StrCell(status)
          [] c = "STATE" -> StrCell(state)]

\* the records of K1 differ in name, status and state, those of K2 in state
DiffRows(key) ==
    IF key = "K1"
    THEN {DiffRow("K1", n, st, state) : n \in {"ACME", "ACME LTD"},
                                        st \in {"Active", "Strike Off"},
                                        state \in {"MH", "GJ"}}
    ELSE {DiffRow("K2", "ACME", "Active", state) : state \in {"MH", "GJ"}}

\* snapshots of at most MaxRows records over the two keys, unique by key
DiffFrames ==
    {DataFrame(Columns, rs) :
        rs \in {<<>>} \cup {<<r>> : r \in DiffRows("K1") \cup DiffRows("K2")}
               \cup (IF MaxRows >= 2
                     THEN {<<a, b>> : a \in DiffRows("K1"), b \in DiffRows("K2")}
                     ELSE {})}

\* the column of these snapshots that is neither the key nor a tracked field
UntrackedColumns == {"STATE"}

\* two snapshots that differ at most in the untracked column
SameButUntracked(a, b) ==
    /\ a.cols = b.cols
    /\ Len(a.rows) = Len(b.rows)
    /\ \A i \in DOMAIN a.rows :
          \A c \in a.cols \ UntrackedColumns : a.rows[i][c] = b.rows[i][c]

InitDiff ==
    /\ old_in \in DiffFrames
    /\ new_in \in DiffFrames
    /\ call = NoCall
    /\ log = NoWrite
    /\ logs = [d \in LogDates |-> NoLog]
    /\ snapshots = [l \in Labels |-> NoFile]
    /\ last = NoStoreCall
    /\ saves = 0
    /\ again = NoCall
    /\ NoRun
    /\ NoDownstream
    /\ pc = "start"

\* detector.detect_changes(new_df, old_df, change_date): the two tables of the
\* first call with their places exchanged
DetectSwapped ==
    /\ pc = "detected"
    /\ \E order \in CommonOrders(call.new_df, call.old_df) :
          again' = detect_changes(call.new_df, call.old_df, call.date_arg, order)
    /\ pc' = "detected_swapped"
    /\ UNCHANGED <<downstream, old_in, new_in, call, log, logs, snapshots, last, saves, pipeline>>

\* detector.detect_changes(old_df, other_df, change_date): the old table of
\* the first call against another new table, one that differs from the first
\* new table in fields outside the tracked set only
DetectOther ==
    /\ pc = "detected"
    /\ \E other \in DiffFrames :
          /\ other # new_in
          /\ SameButUntracked(other, new_in)
          /\ \E order \in CommonOrders(call.old_df, other) :
                again' = detect_changes(call.old_df, other, call.date_arg, order)
    /\ pc' = "detected_other"
    /\ UNCHANGED <<downstream, old_in, new_in, call, log, logs, snapshots, last, saves, pipeline>>

NextDiff ==
    \/ DetectChanges
    \/ DetectSwapped
    \/ DetectOther

SpecDiff == InitDiff /\ [][NextDiff]_vars

\* ------------------------------------- the relational store (SpecDatabase)

\* the change logs a run of the detector left for a date: none, the log of a
\* status change of K1, or the log of that change and the incorporation of K2
LogFilesOf(d) ==
    { NoLog,
      create_change_log(
          detect_changes(DataFrame(Columns, <<StoreRow("K1", "Active")>>),
                         DataFrame(Columns, <<StoreRow("K1", "Strike Off")>>),
                         StrCell(d), <<StrCell("K1")>>).changes,
          StrCell(d), NoLog).files,
      create_change_log(
          detect_changes(DataFrame(Columns, <<StoreRow("K1", "Active")>>),
                         DataFrame(Columns, <<StoreRow("K1", "Strike Off"),
                                              StoreRow("K2", "Active")>>),
                         StrCell(d), <<StrCell("K1")>>).changes,
          StrCell(d), NoLog).files }

\* list(change_logs_dir.glob("change_log_*.csv")), in any order
change_files(files) == Perms({d \in DOMAIN files : files[d].csv.exists})

InitDatabase ==
    /\ old_in = EmptyFrame
    /\ new_in = EmptyFrame
    /\ call = NoCall
    /\ log = NoWrite
    /\ logs \in {f \in [LogDates -> UNION {LogFilesOf(d) : d \in LogDates}] :
                    \A d \in LogDates : f[d] \in LogFilesOf(d)}
    /\ snapshots = [l \in Labels |-> NoFile]
    /\ last = NoStoreCall
    /\ saves = 0
    /\ again = NoCall
    /\ NoRun
    /\ NoDownstream
    /\ pc = "database"

\* a run of main of the database module: every change log of the directory
\* is read and handed to insert_changes
DatabaseMain ==
    /\ pc = "database"
    /\ db.runs < MaxLoads
    /\ \E order \in change_files(logs) :
          db' = [ changes |-> load_change_files(db.changes, logs, order),
                  runs |-> db.runs + 1 ]
    /\ UNCHANGED <<detection, logs, snapshots, last, saves, pipeline, enrichment, pc>>

NextDatabase == DatabaseMain

SpecDatabase == InitDatabase /\ [][NextDatabase]_vars

\* --------------------------------------------- one enrich_batch (SpecEnrich)

\* the dicts of the companies: two keys, and a dict without the key column
Company(key) ==
    [ CIN |-> StrCell(key), COMPANY_NAME |-> StrCell("ACME"),
      COMPANY_STATUS |-> StrCell("Active") ]
    @@ ("STATE" :> StrCell("MH"))

NoKeyCompany == [COMPANY_NAME |-> StrCell("ACME")]

Companies == {Company("K1"), Company("K2"), NoKeyCompany}

CompanyLists == UNION {[1..n -> Companies] : n \in 0..MaxCompanies}

\* the record an earlier batch left in the cache file for a key
CachedRecord(key) ==
    [enriched_record(Company(key), Len(EnrichSources)) EXCEPT !.ENRICHMENT_DATE = EarlierIso]

\* the cache file the enricher finds: none, or one with a record for K1
CacheFiles == { <<>>, [k \in {"K1"} |-> CachedRecord(k)] }

\* WebEnricher(): self.cache = self.load_cache()
InitEnrich ==
    /\ old_in = EmptyFrame
    /\ new_in = EmptyFrame
    /\ call = NoCall
    /\ log = NoWrite
    /\ logs = [d \in LogDates |-> NoLog]
    /\ snapshots = [l \in Labels |-> NoFile]
    /\ last = NoStoreCall
    /\ saves = 0
    /\ again = NoCall
    /\ NoRun
    /\ db = NoDatabase
    /\ companies = <<>>
    /\ cache_file \in CacheFiles
    /\ cache = cache_file
    /\ workers = <<>>
    /\ enriched_companies = <<>>
    /\ pc = "enricher"

\* enrich_batch(companies): a future is submitted for every company
EnrichBatch ==
    /\ pc = "enricher"
    /\ \E list \in CompanyLists :
          /\ companies' = list
          /\ workers' = [w \in DOMAIN list |-> QueuedFuture(list[w])]
    /\ enriched_companies' = <<>>
    /\ pc' = "enriching"
    /\ UNCHANGED <<detection, logs, snapshots, last, saves, pipeline, db, cache, cache_file>>

\* a thread of the pool takes the next future of the queue and runs
\* enrich_company up to the test of the cache: the call raises KeyError, or
\* returns the cached record, or goes on to fetch
EnrichCompany(w) ==
    /\ pc = "enriching"
    /\ workers[w].at = "queued"
    /\ \A v \in DOMAIN workers : v < w => workers[v].at # "queued"
    /\ Cardinality(running(workers)) < max_workers
    /\ LET future == workers[w]
           company_data == future.company
       IN  workers' = [workers EXCEPT ![w] =
              IF ~has_cin(company_data) THEN [future EXCEPT !.at = "raised"]
              ELSE IF cache_hit(cache, company_data)
              THEN [future EXCEPT !.at = "returned", !.hit = TRUE,
                                  !.result = cache[str(company_data["CIN"])]]
              ELSE [future EXCEPT !.at = "fetching"]]
    /\ UNCHANGED <<detection, logs, snapshots, last, saves, pipeline, db, companies,
                   cache, cache_file, enriched_companies, pc>>

\* the rest of enrich_company after the fetches and their sleeps:
\* self.cache[cin] = enriched; return enriched
StoreEnriched(w) ==
    /\ pc = "enriching"
    /\ workers[w].at = "fetching"
    /\ \E fetched \in FetchOutcomes :
          LET enriched == enriched_record(workers[w].company, fetched)
          IN  /\ cache' = cache_put(cache, workers[w].company["CIN"], enriched)
              /\ workers' = [workers EXCEPT ![w] =
                                [workers[w] EXCEPT !.at = "returned",
                                                   !.result = enriched]]
    /\ UNCHANGED <<detection, logs, snapshots, last, saves, pipeline, db, companies,
                   cache_file, enriched_companies, pc>>

\* for future in as_completed(...): the result of a future that is done is
\* appended, the exception of one that raised is logged
AsCompleted(w) ==
    /\ pc = "enriching"
    /\ finished(workers[w])
    /\ ~workers[w].yielded
    /\ workers' = [workers EXCEPT ![w].yielded = TRUE]
    /\ enriched_companies' =
          IF workers[w].at = "returned"
          THEN Append(enriched_companies, workers[w].result)
          ELSE enriched_companies
    /\ UNCHANGED <<detection, logs, snapshots, last, saves, pipeline, db, companies,
                   cache, cache_file, pc>>

\* self.save_cache(); return pd.DataFrame(enriched_companies)
SaveCache ==
    /\ pc = "enriching"
    /\ batch_over(workers)
    /\ cache_file' = cache
    /\ pc' = "enriched"
    /\ UNCHANGED <<detection, logs, snapshots, last, saves, pipeline, db, companies,
                   cache, workers, enriched_companies>>

NextEnrich ==
    \/ EnrichBatch
    \/ \E w \in DOMAIN workers : EnrichCompany(w)
    \/ \E w \in DOMAIN workers : StoreEnriched(w)
    \/ \E w \in DOMAIN workers : AsCompleted(w)
    \/ SaveCache

SpecEnrich == InitEnrich /\ [][NextEnrich]_vars

\* ------------------------------------------------------------- properties

\* the identity keys of a table as passed in, as texts
KeysIn(df) == {str(df.rows[i]["CIN"]) : i \in DOMAIN df.rows}

\* the row of a table as passed in that has the key k
RowOf(df, k) == df.rows[CHOOSE i \in DOMAIN df.rows : str(df.rows[i]["CIN"]) = k]

\* the positions in the list of the events of one kind for one key
EventsOf(events, kind, k) ==
    {i \in DOMAIN events : events[i]["CHANGE_TYPE"] = StrCell(kind)
                           /\ str(events[i]["CIN"]) = k}

EventsOfKind(events, kind) ==
    {i \in DOMAIN events : events[i]["CHANGE_TYPE"] = StrCell(kind)}

Returned == pc \in {"detected", "logged"}

\* C1: the three key sets detect_changes computes (new minus old, old minus
\* new, in both) are pairwise disjoint.
C1_KeySetsDisjoint ==
    Returned =>
        /\ call.new_incorporations \cap call.deregistered = {}
        /\ call.common_cins \cap call.new_incorporations = {}
        /\ call.common_cins \cap call.deregistered = {}

C1_Witness ==
    /\ pc = "detected"
    /\ call.new_incorporations # {}
    /\ call.deregistered # {}
    /\ call.common_cins # {}

\* C2: in the events of one run a key is in at most one of the
\* NEW_INCORPORATION and DEREGISTRATION groups, and a key with an event of
\* either group has no FIELD_UPDATE event.
C2_GroupsExclusive ==
    pc = "logged" =>
        \A i, j \in DOMAIN log.all_changes :
            LET a == log.all_changes[i]
                b == log.all_changes[j]
            IN  a["CIN"] = b["CIN"] =>
                  /\ ~(a["CHANGE_TYPE"] = StrCell("NEW_INCORPORATION")
                       /\ b["CHANGE_TYPE"] = StrCell("DEREGISTRATION"))
                  /\ ~(a["CHANGE_TYPE"] \in {StrCell("NEW_INCORPORATION"),
                                             StrCell("DEREGISTRATION")}
                       /\ b["CHANGE_TYPE"] = StrCell("FIELD_UPDATE"))

C2_Witness ==
    /\ pc = "logged"
    /\ EventsOfKind(log.all_changes, "NEW_INCORPORATION") # {}
    /\ EventsOfKind(log.all_changes, "DEREGISTRATION") # {}
    /\ EventsOfKind(log.all_changes, "FIELD_UPDATE") # {}

\* C3: one NEW_INCORPORATION event per key in new and not in old, carrying
\* the new record; one DEREGISTRATION event per key in old and not in new,
\* carrying the old record (the old status as OLD_VALUE); no other event of
\* these two kinds.
C3_AdditionsAndRemovals ==
    pc = "logged" =>
        LET added == KeysIn(new_in) \ KeysIn(old_in)
            removed == KeysIn(old_in) \ KeysIn(new_in)
            ev == log.all_changes
        IN  /\ \A k \in added :
                 /\ Cardinality(EventsOf(ev, "NEW_INCORPORATION", k)) = 1
                 /\ \A i \in EventsOf(ev, "NEW_INCORPORATION", k) :
                      /\ ev[i]["COMPANY_NAME"] =
                            get(RowOf(new_in, k), "COMPANY_NAME", StrCell(""))
                      /\ ev[i]["STATUS"] =
                            get(RowOf(new_in, k), "COMPANY_STATUS", StrCell(""))
                      /\ ev[i]["STATE"] = get(RowOf(new_in, k), "STATE", StrCell(""))
            /\ \A k \in removed :
                 /\ Cardinality(EventsOf(ev, "DEREGISTRATION", k)) = 1
                 /\ \A i \in EventsOf(ev, "DEREGISTRATION", k) :
                      /\ ev[i]["COMPANY_NAME"] =
                            get(RowOf(old_in, k), "COMPANY_NAME", StrCell(""))
                      /\ ev[i]["OLD_VALUE"] =
                            get(RowOf(old_in, k), "COMPANY_STATUS", StrCell(""))
                      /\ ev[i]["STATE"] = get(RowOf(old_in, k), "STATE", StrCell(""))
            /\ \A i \in EventsOfKind(ev, "NEW_INCORPORATION") : str(ev[i]["CIN"]) \in added
            /\ \A i \in EventsOfKind(ev, "DEREGISTRATION") : str(ev[i]["CIN"]) \in removed

C3_Witness ==
    /\ pc = "logged"
    /\ KeysIn(new_in) \ KeysIn(old_in) # {}
    /\ KeysIn(old_in) \ KeysIn(new_in) # {}
    /\ KeysIn(old_in) \cap KeysIn(new_in) # {}
    /\ old_in.cols = Columns
    /\ new_in.cols = Columns

C7_OnlyRemoval ==
    (/\ Returned
     /\ HasKey(old_in) /\ Len(old_in.rows) = 1 /\ KeysIn(old_in) = {"K1"}
     /\ HasKey(new_in) /\ new_in.rows = <<>>) =>
        /\ Len(call.changes.deregistrations.rows) = 1
        /\ call.changes.deregistrations.rows[1]["CIN"] = StrCell("K1")
        /\ call.changes.new_incorporations.rows = <<>>
        /\ call.changes.field_updates.rows = <<>>
        /\ pc = "logged" =>
              /\ Len(log.all_changes) = 1
              /\ log.all_changes[1]["CHANGE_TYPE"] = StrCell("DEREGISTRATION")
              /\ log.all_changes[1]["CIN"] = StrCell("K1")

C7_Witness ==
    /\ pc = "logged"
    /\ old_in.cols = Columns /\ Len(old_in.rows) = 1 /\ KeysIn(old_in) = {"K1"}
    /\ new_in.cols = Columns /\ new_in.rows = <<>>

C10_SnapshotsUnchanged ==
    pc # "start" => (call.old_df = old_in /\ call.new_df = new_in)

\* C5: after any sequence of writes for one detection date the persisted log
\* holds exactly the events of the most recent write; no event of an earlier
\* run for that date survives.
C5_LogIsLastWrite ==
    last.op = "track_consecutive_days" =>
        \A i \in DOMAIN last.writes :
            LET w == last.writes[i]
            IN  /\ logs[w.log_date].json.records = json_dump(w.all_changes).records
                /\ logs[w.log_date].csv.rows = to_csv(FrameOfDicts(w.all_changes)).rows

\* the table load_snapshot returns for a snapshot that exists without records
ExistingEmpty == {read_csv(to_csv(f)) : f \in {g \in StoreFrames : g.rows = <<>>}}

LoadedMissing == last.op = "load_snapshot" /\ ~snapshots[last.label].exists

C11_NoPartialArtifact ==
    pc = "write_failed" =>
        \A d \in LogDates :
            /\ logs[d].csv.exists = logs[d].json.exists
            /\ logs[d].csv.exists =>
                  logs[d].csv.rows =
                      to_csv(FrameOfDicts(logs[d].json.records)).rows

\* the number of places of a sequence that hold x
Count(seq, x) == Cardinality({i \in DOMAIN seq : seq[i] = x})

\* two sequences hold the same multiset of values
SameMultiset(a, b) ==
    /\ Len(a) = Len(b)
    /\ \A i \in DOMAIN a : Count(a, a[i]) = Count(b, a[i])

\* the counts of an in-memory event list, taken directly
DirectCount(events, kind) == Cardinality(EventsOfKind(events, kind))

DirectBreakdown(events) ==
    LET upd == SelectSeq(events, LAMBDA e : e["CHANGE_TYPE"] = StrCell("FIELD_UPDATE"))
    IN  IF upd = <<>> THEN <<>>
        ELSE [f \in {upd[i]["FIELD_CHANGED"] : i \in DOMAIN upd} |->
                 Cardinality({i \in DOMAIN upd : upd[i]["FIELD_CHANGED"] = f})]

CountsMatch(summary, events) ==
    /\ summary.total_changes = Len(events)
    /\ summary.new_incorporations = DirectCount(events, "NEW_INCORPORATION")
    /\ summary.deregistrations = DirectCount(events, "DEREGISTRATION")
    /\ summary.field_updates = DirectCount(events, "FIELD_UPDATE")
    /\ summary.field_change_breakdown = DirectBreakdown(events)

C18_OneDatePerLog ==
    (pc = "logged" /\ call.date_arg = log.date_arg) =>
        \A i \in DOMAIN log.all_changes :
            log.all_changes[i]["DATE"] = StrCell(log.log_date)

\* C19: in a written change log every NEW_INCORPORATION row has
\* FIELD_CHANGED "ALL", an empty OLD_VALUE and NEW_VALUE "INCORPORATED", every
\* DEREGISTRATION row has FIELD_CHANGED "COMPANY_STATUS" and NEW_VALUE
\* "DEREGISTERED", and every row has one of the three kinds.
C19_RowShapes ==
    (pc = "logged" /\ logs[log.log_date].csv.exists) =>
        LET rows == logs[log.log_date].csv.rows
            recs == logs[log.log_date].json.records
        IN  /\ Len(recs) = Len(rows)
            /\ \A i \in DOMAIN rows :
                 /\ rows[i]["CHANGE_TYPE"] \in
                       {"NEW_INCORPORATION", "DEREGISTRATION", "FIELD_UPDATE"}
                 /\ recs[i]["CHANGE_TYPE"] = StrCell(rows[i]["CHANGE_TYPE"])
                 /\ rows[i]["CHANGE_TYPE"] = "NEW_INCORPORATION" =>
                       /\ rows[i]["FIELD_CHANGED"] = "ALL"
                       /\ rows[i]["OLD_VALUE"] = ""
                       /\ rows[i]["NEW_VALUE"] = "INCORPORATED"
                       /\ recs[i]["FIELD_CHANGED"] = StrCell("ALL")
                       /\ recs[i]["OLD_VALUE"] = None
                       /\ recs[i]["NEW_VALUE"] = StrCell("INCORPORATED")
                 /\ rows[i]["CHANGE_TYPE"] = "DEREGISTRATION" =>
                       /\ rows[i]["FIELD_CHANGED"] = "COMPANY_STATUS"
                       /\ rows[i]["NEW_VALUE"] = "DEREGISTERED"
                       /\ recs[i]["FIELD_CHANGED"] = StrCell("COMPANY_STATUS")
                       /\ recs[i]["NEW_VALUE"] = StrCell("DEREGISTERED")

C19_Witness ==
    /\ pc = "logged"
    /\ logs[log.log_date].csv.exists
    /\ \E i, j, k \in DOMAIN logs[log.log_date].csv.rows :
          /\ logs[log.log_date].csv.rows[i]["CHANGE_TYPE"] = "NEW_INCORPORATION"
          /\ logs[log.log_date].csv.rows[j]["CHANGE_TYPE"] = "DEREGISTRATION"
          /\ logs[log.log_date].csv.rows[k]["CHANGE_TYPE"] = "FIELD_UPDATE"

\* C20: a second detect_changes on the same two tables with the same date
\* yields the same multiset of events as the first: the same additions, the
\* same removals and the same field updates.
C20_SecondCallSame ==
    pc = "detected_again" =>
        /\ again.raised = "none"
        /\ SameMultiset(again.changes.new_incorporations.rows,
                        call.changes.new_incorporations.rows)
        /\ SameMultiset(again.changes.deregistrations.rows,
                        call.changes.deregistrations.rows)
        /\ SameMultiset(again.changes.field_updates.rows,
                        call.changes.field_updates.rows)

C20_Witness ==
    /\ pc = "detected_again"
    /\ call.old_df # old_in
    /\ call.changes.new_incorporations.rows # <<>>
    /\ call.changes.deregistrations.rows # <<>>
    /\ call.changes.field_updates.rows # <<>>

\* the position of a column a table has once
ColumnAt(t, name) == CHOOSE i \in DOMAIN t.columns : t.columns[i] = name

\* the trimmed key texts of the rows of a table
KeyTexts(t) == {strip(str(t.rows[r][ColumnAt(t, "CIN")])) : r \in DOMAIN t.rows}

\* C12: the table clean_data returns has no two rows with the same trimmed
\* key, and the row it keeps for a key is the last source row with that key.
C12_CleanedKeysUnique ==
    pc = "cleaned" =>
        LET at == ColumnAt(cleaned.df, "CIN")
            src == ColumnAt(std.df, "CIN")
        IN  /\ \A i, j \in DOMAIN cleaned.df.rows :
                 cleaned.df.rows[i][at] = cleaned.df.rows[j][at] => i = j
            /\ \A k \in DOMAIN cleaned.index :
                 \A r \in DOMAIN std.df.rows :
                    strip(str(std.df.rows[r][src])) = str(cleaned.df.rows[k][at])
                       => r <= cleaned.index[k]

\* C13: a raw row whose trimmed key has not exactly 21 characters is dropped
\* by clean_data, which does not raise for it; every key of a saved snapshot,
\* of a master table and of a logged event has 21 characters, so a dropped
\* key is in none of them.
C13_ShortKeyNeverAppears ==
    /\ pc \in {"cleaned", "merged"} =>
          \A r \in DOMAIN std.df.rows :
              LET key == strip(str(std.df.rows[r][ColumnAt(std.df, "CIN")]))
              IN  Len(key) # KeyLen =>
                     /\ cleaned.raised = "none"
                     /\ key \notin KeyTexts(cleaned.df)
                     /\ \A m \in DOMAIN master.rows : str(master.rows[m]["CIN"]) # key
    /\ pc = "crashed" =>
          \E i, j \in DOMAIN std.df.columns : i # j /\ std.df.columns[i] = std.df.columns[j]
    /\ \A l \in Labels : \A r \in DOMAIN snapshots[l].rows :
          Len(snapshots[l].rows[r]["CIN"]) = KeyLen
    /\ \A d \in LogDates :
          /\ \A r \in DOMAIN logs[d].csv.rows : Len(logs[d].csv.rows[r]["CIN"]) = KeyLen
          /\ \A r \in DOMAIN logs[d].json.records :
                Len(str(logs[d].json.records[r]["CIN"])) = KeyLen

C13_Witness ==
    /\ pc = "tracked"
    /\ positions(raw.columns, "CIN") # {}
    /\ \E r \in DOMAIN raw.rows : raw.rows[r][ColumnAt(raw, "CIN")] = StrCell(KeyShort)
    /\ \E r \in DOMAIN raw.rows : raw.rows[r][ColumnAt(raw, "CIN")] = StrCell(KeyB)
    /\ \E l \in Labels : \E r \in DOMAIN snapshots[l].rows :
          snapshots[l].rows[r]["CIN"] = KeyB
    /\ Cardinality({l \in Labels : snapshots[l].exists}) = 2
    /\ \E d \in LogDates : logs[d].json.records # <<>>

\* C14: the score of every cleaned record is the number of canonical fields
\* the source record has a value for, over the number of canonical fields;
\* it is between 0 and 1 and is 1 exactly when the source record misses none.
C14_ScoreCountsSourceFields ==
    pc = "cleaned" =>
        \A k \in DOMAIN cleaned.scores :
            LET source == std.df.rows[cleaned.index[k]]
                present == Cardinality({i \in DOMAIN source : ~isna(source[i])})
                score == cleaned.scores[k]
            IN  /\ score.den = Cardinality(CanonicalFields)
                /\ score.num = present
                /\ 0 <= score.num /\ score.num <= score.den
                /\ (score.num = score.den) <=> (\A i \in DOMAIN source : ~isna(source[i]))

\* C15: standardize_columns returns exactly the canonical columns, each once,
\* in the one order required_columns has, whatever columns the source had.
C15_CanonicalColumnsOnce ==
    pc = "standardized" =>
        /\ Len(std.df.columns) = Cardinality(CanonicalFields)
        /\ {std.df.columns[i] : i \in DOMAIN std.df.columns} = CanonicalFields
        /\ std.df.columns = seed

\* the source has a column of the alias group of the identity key
HasKeyAlias(t) ==
    \E i \in DOMAIN t.columns :
        upper_strip(t.columns[i]) \in {"CIN", "CORPORATE_IDENTIFICATION_NUMBER"}

\* C16: standardize_columns fails exactly when the source has no column of
\* the alias group of the identity key; any other canonical column the
\* source lacks is filled with missing values.
C16_FailsWithoutKeyColumn ==
    pc = "standardized" =>
        /\ (std.raised # "none") <=> ~HasKeyAlias(raw)
        /\ std.raised = "none" =>
              \A i \in DOMAIN std.df.columns :
                 (\A j \in DOMAIN raw.columns :
                     upper_strip(raw.columns[j]) \notin DOMAIN column_mapping
                     \/ column_mapping[upper_strip(raw.columns[j])] # std.df.columns[i])
                 => \A r \in DOMAIN std.df.rows : std.df.rows[r][i] = NaN

\* the identity keys of the rows of a table of a detect_changes result
KeysOf(table) == {str(table.rows[i]["CIN"]) : i \in DOMAIN table.rows}

\* C21: the keys of the additions of detect_changes(A, B) are the keys of the
\* removals of detect_changes(B, A), and the keys of the removals of
\* detect_changes(A, B) are the keys of the additions of detect_changes(B, A).
C21_AdditionsMirrorRemovals ==
    (pc = "detected_swapped" /\ again.raised = "none") =>
        /\ KeysOf(call.changes.new_incorporations) = KeysOf(again.changes.deregistrations)
        /\ KeysOf(call.changes.deregistrations) = KeysOf(again.changes.new_incorporations)

C21_Witness ==
    /\ pc = "detected_swapped"
    /\ again.raised = "none"
    /\ KeysOf(call.changes.new_incorporations) = {"K2"}
    /\ KeysOf(again.changes.deregistrations) = {"K2"}
    /\ KeysOf(call.changes.deregistrations) = {"K1"}
    /\ KeysOf(again.changes.new_incorporations) = {"K1"}

\* the tracked fields as ChangeDetector.__init__ lists them
TrackedSet ==
    { "COMPANY_NAME", "COMPANY_CLASS", "COMPANY_STATUS", "AUTHORIZED_CAPITAL",
      "PAIDUP_CAPITAL", "PRINCIPAL_BUSINESS_ACTIVITY", "REGISTERED_OFFICE_ADDRESS" }

\* the tracked fields in which the records of key k differ between two tables
ChangedFields(old, new, k) ==
    {f \in TrackedSet :
        /\ f \in old.cols
        /\ f \in new.cols
        /\ str(RowOf(old, k)[f]) # str(RowOf(new, k)[f])
        /\ ~(isna(RowOf(old, k)[f]) /\ isna(RowOf(new, k)[f]))}

\* C22: in one detection run every (key, field) pair has at most one
\* FIELD_UPDATE event, and a key of both snapshots with k changed tracked
\* fields has exactly k FIELD_UPDATE events.
C22_OneEventPerChangedField ==
    pc = "detected" =>
        LET upd == call.changes.field_updates.rows
        IN  /\ \A i, j \in DOMAIN upd :
                  (/\ upd[i]["CIN"] = upd[j]["CIN"]
                   /\ upd[i]["FIELD_CHANGED"] = upd[j]["FIELD_CHANGED"]) => i = j
            /\ \A k \in KeysIn(old_in) \cap KeysIn(new_in) :
                  Cardinality({i \in DOMAIN upd : str(upd[i]["CIN"]) = k})
                      = Cardinality(ChangedFields(old_in, new_in, k))

C22_Witness ==
    /\ pc = "detected"
    /\ "K1" \in KeysIn(old_in) \cap KeysIn(new_in)
    /\ ChangedFields(old_in, new_in, "K1") = {"COMPANY_NAME", "COMPANY_STATUS"}
    /\ Len(call.changes.field_updates.rows) = 2

\* the detection date the events of the first call carry
DateOf(c) == IF c.date_arg = None THEN TodayCompact ELSE str(c.date_arg)

\* C23 as stated: two new snapshots that differ only in untracked fields give
\* the same events against the same old snapshot, and every FIELD_UPDATE
\* event names a tracked field.
C23_SameEvents ==
    (pc = "detected_other" /\ again.raised = "none") =>
        /\ all_changes_of(call.changes, DateOf(call))
              = all_changes_of(again.changes, DateOf(call))
        /\ \A i \in DOMAIN again.changes.field_updates.rows :
              str(again.changes.field_updates.rows[i]["FIELD_CHANGED"]) \in TrackedSet

\* the events of one kind in a list, in their order
EventsIn(events, kind) ==
    SelectSeq(events, LAMBDA e : e["CHANGE_TYPE"] = StrCell(kind))

\* an event without the value it copies from the untracked column
WithoutState(e) == [k \in DOMAIN e \ {"STATE"} |-> e[k]]

\* C23 as amended: two new snapshots that differ only in untracked fields give
\* the same REMOVAL and FIELD_UPDATE events against the same old snapshot and
\* ADDITION events for the same keys in the same order, equal but for the
\* STATE they copy from the new record; every FIELD_UPDATE event names a
\* tracked field.
C23_SameEventsButCopiedState ==
    (pc = "detected_other" /\ again.raised = "none") =>
        LET first == all_changes_of(call.changes, DateOf(call))
            other == all_changes_of(again.changes, DateOf(call))
        IN  /\ EventsIn(first, "DEREGISTRATION") = EventsIn(other, "DEREGISTRATION")
            /\ EventsIn(first, "FIELD_UPDATE") = EventsIn(other, "FIELD_UPDATE")
            /\ Len(first) = Len(other)
            /\ \A i \in DOMAIN first : WithoutState(first[i]) = WithoutState(other[i])
            /\ \A i \in DOMAIN other :
                  other[i]["CHANGE_TYPE"] = StrCell("FIELD_UPDATE")
                      => str(other[i]["FIELD_CHANGED"]) \in TrackedSet

C23_Witness ==
    /\ pc = "detected_other"
    /\ again.raised = "none"
    /\ \E i \in DOMAIN new_in.rows :
          /\ new_in.rows[i]["CIN"] = StrCell("K1")
          /\ new_in.rows[i]["STATE"] # again.new_df.rows[i]["STATE"]
    /\ "K1" \in KeysIn(old_in)
    /\ Len(again.changes.field_updates.rows) = 2
    /\ again.changes.field_updates = call.changes.field_updates


\* C24: the summary of a change log reports affected_entity_count, the number
\* of distinct identity keys of the events of the log, beside the date, the
\* counts and the per-field breakdown.
C24_AffectedEntityCount ==
    (pc = "summarized" /\ last.raised = "none") =>
        LET summary == last.summaries[1]
        IN  /\ {"date", "total_changes", "new_incorporations", "deregistrations",
                "field_updates", "field_change_breakdown"} \subseteq DOMAIN summary
            /\ "affected_entity_count" \in DOMAIN summary
            /\ summary["affected_entity_count"]
                  = Cardinality({str(log.all_changes[i]["CIN"]) : i \in DOMAIN log.all_changes})

\* the place of the group of an event kind in a change log
GroupOf(kind) ==
    CASE kind = "NEW_INCORPORATION" -> 1
      [] kind = "DEREGISTRATION" -> 2
      [] kind = "FIELD_UPDATE" -> 3

\* the kinds of a list of events never step back to an earlier group
Grouped(kinds) ==
    \A i, j \in DOMAIN kinds : i < j => GroupOf(kinds[i]) <= GroupOf(kinds[j])

\* C26: in the event list of a written change log all ADDITION events come
\* first, then all REMOVAL events, then all FIELD_UPDATE events, in the list
\* and in both files.
C26_EventsGrouped ==
    (pc \in {"logged", "summarized"} /\ log.ret # <<"", "">>) =>
        /\ Grouped([i \in DOMAIN log.all_changes |-> str(log.all_changes[i]["CHANGE_TYPE"])])
        /\ LET rows == logs[log.log_date].csv.rows
           IN  Grouped([i \in DOMAIN rows |-> rows[i]["CHANGE_TYPE"]])
        /\ LET records == logs[log.log_date].json.records
           IN  Grouped([i \in DOMAIN records |-> str(records[i]["CHANGE_TYPE"])])

C26_Witness ==
    /\ pc = "logged"
    /\ log.ret # <<"", "">>
    /\ LET rows == logs[log.log_date].csv.rows
       IN  /\ Len(rows) = 3
           /\ rows[1]["CHANGE_TYPE"] = "NEW_INCORPORATION"
           /\ rows[2]["CHANGE_TYPE"] = "DEREGISTRATION"
           /\ rows[3]["CHANGE_TYPE"] = "FIELD_UPDATE"


\* the labels of the stored snapshots, ascending
StoredLabels == SelectSeq(LabelOrder, LAMBDA l : snapshots[l].exists)

\* the place of a label in the ascending order of the labels
PlaceOf(label) == CHOOSE i \in DOMAIN LabelOrder : LabelOrder[i] = label

\* the calls of create_change_log of the last run that wrote a log
Written == SelectSeq(last.writes, LAMBDA w : w.all_changes # <<>>)

TrackReturned == last.op = "track_consecutive_days" /\ last.raised = "none"

C28_NeighboursInOrder ==
    last.op = "track_consecutive_days" =>
        LET n == Len(StoredLabels)
        IN  /\ n < 2 => (last.summaries = <<>> /\ last.diffs = <<>> /\ last.writes = <<>>)
            /\ Len(last.diffs) <= last.num_days
            /\ n >= 1 => Len(last.diffs) <= n - 1
            /\ \A k \in DOMAIN last.diffs :
                  \E i \in 1..(n - 1) :
                      /\ i <= last.num_days
                      /\ last.diffs[k] = <<StoredLabels[i], StoredLabels[i + 1]>>
            /\ \A j, k \in DOMAIN last.diffs :
                  j < k => PlaceOf(last.diffs[j][1]) < PlaceOf(last.diffs[k][1])
            /\ last.raised = "none" =>
                  /\ Len(last.writes) = Len(last.diffs)
                  /\ \A k \in DOMAIN last.diffs : last.writes[k].log_date = last.diffs[k][2]

C28_Witness ==
    /\ last.op = "track_consecutive_days"
    /\ last.raised = "none"
    /\ Len(StoredLabels) = 3
    /\ last.num_days = 2
    /\ last.diffs = << <<"20240101", "20240102">>, <<"20240102", "20240103">> >>
    /\ logs["20240102"].csv.exists
    /\ logs["20240103"].csv.exists


StoredEvents == {db.changes[i].row : i \in DOMAIN db.changes}

\* C29: the table changes holds one row per event however often a change log
\* was loaded: the number of stored rows is the number of distinct events
\* loaded.
C29_OneRowPerEvent ==
    Len(db.changes) = Cardinality(StoredEvents)

\* the futures whose call of enrich_company did not raise
Answered == {w \in DOMAIN workers : workers[w].at = "returned"}

\* the key text of the company of a future
KeyOfFuture(w) == str(workers[w].company["CIN"])

\* C30: under every interleaving of the threads of enrich_batch: a call that
\* finds its key in the cache returns the cached record and neither fetches
\* nor stores, so the records the cache held when the batch began stay as
\* they were; the cache file is not written while the batch runs; and when
\* the batch has returned every thread has ended, the cache holds a complete
\* record for the key of every company whose enrichment did not raise, the
\* result has one row per such company, and the cache file holds the cache.
C30_BatchLeavesCacheComplete ==
    /\ pc = "enriching" =>
          /\ \A k \in DOMAIN cache_file :
                /\ cache_file[k]["ENRICHMENT_DATE"] = EarlierIso
                /\ k \in DOMAIN cache
                /\ cache[k] = cache_file[k]
          /\ \A w \in DOMAIN workers :
                ("CIN" \in DOMAIN workers[w].company /\ KeyOfFuture(w) \in DOMAIN cache_file) =>
                    /\ workers[w].at \in {"queued", "returned"}
                    /\ workers[w].at = "returned" =>
                          (workers[w].hit /\ workers[w].result = cache_file[KeyOfFuture(w)])
    /\ pc \in {"enriching", "enriched"} =>
          \A w \in DOMAIN workers :
              workers[w].hit =>
                  /\ workers[w].at = "returned"
                  /\ \/ workers[w].result = cache[KeyOfFuture(w)]
                     \/ \E v \in DOMAIN workers :
                           /\ v # w
                           /\ workers[v].company = workers[w].company
                           /\ ~workers[v].hit
                           /\ workers[v].result = workers[w].result
    /\ pc = "enriched" =>
          /\ \A w \in DOMAIN workers : workers[w].at \in {"returned", "raised"}
          /\ \A w \in DOMAIN workers :
                workers[w].at = "raised" <=> "CIN" \notin DOMAIN workers[w].company
          /\ \A w \in Answered :
                /\ KeyOfFuture(w) \in DOMAIN cache
                /\ cache[KeyOfFuture(w)]["CIN"] = workers[w].company["CIN"]
                /\ cache[KeyOfFuture(w)]["ENRICHMENT_COMPLETE"] = TRUE
          /\ LET answers == SelectSeq(workers, LAMBDA f : f.at = "returned")
             IN  SameMultiset(enriched_companies,
                              [i \in DOMAIN answers |-> answers[i].result])
          /\ cache_file = cache

C30_Witness ==
    /\ pc = "enriched"
    /\ Len(workers) = 3
    /\ workers[1].at = "returned" /\ ~workers[1].hit
    /\ workers[2].at = "returned" /\ workers[2].hit
    /\ workers[2].company = workers[1].company
    /\ workers[3].at = "raised"
    /\ Len(enriched_companies) = 2


====
